---- MODULE Spec2Model ----
(***************************************************************************)
(* Session / authorization layer and prediction ownership model of the     *)
(* flat price prediction API (backend/app.py) and of the admin             *)
(* provisioning script (backend/create_admin.py).                          *)
(*                                                                         *)
(* Every HTTP handler is one action: guard, body and commit together.      *)
(* req is the request the last step served and resp the response it        *)
(* returned. SpecThreads serves requests in parallel: there a handler is   *)
(* a sequence of steps of a thread, and threads holds their positions.     *)
(***************************************************************************)
EXTENDS Integers, Sequences, FiniteSets, TLC

\* ------------------------------------------------------------- bounds
\* The number of requests of a run that change a table or a registry, and the
\* longest Authorization header (in pieces) the guard is applied to.
MaxWrites == 6
MaxHeaderLen == 4
\* The number of requests the threaded server handles at the same time.
MaxThreads == 2

\* ------------------------------------------------------------- inputs
ADMIN_EMAIL == "admin@flatprice.com"
ADMIN_PASSWORD == "admin123"

\* A JSON field that is absent, null or empty: data.get(..) is falsy.
Missing == ""

Emails == {"a@x.com", "A@x.com"}
Passwords == {"pw1", "pw2"}

\* The n-th value secrets.token_urlsafe(32) returns.
Tok(n) == "t" \o ToString(n)

\* An Authorization header is text, written as a sequence of pieces: a piece
\* is one space or a word without spaces.
SP == " "
Schemes == {"Bearer", "Basic"}
NoHeader == [present |-> FALSE, value |-> <<>>]
Hdr(pieces) == [present |-> TRUE, value |-> pieces]
Bearer(t) == Hdr(<<"Bearer", SP, t>>)


VARIABLES
    users,          \* User table: id -> [email, password, is_blocked]
    admins,         \* Admin table: id -> [email, password, role]
    predictions,    \* Prediction table: id -> [user_id, input_data, price, favorite]
    active_tokens,  \* app.py:26, token -> user id
    admin_tokens,   \* app.py:27, token -> admin id
    issued,         \* every token generated so far: token -> [registry, principal]
    revoked,        \* the tokens a logout has deleted or a restart has lost
    writes,         \* the number of requests that changed a table or a registry
    req,            \* the request served by the last step
    resp,           \* the response returned by the last step
    threads         \* the requests served at the same time: thread -> its position

vars == <<users, admins, predictions, active_tokens, admin_tokens, issued, revoked, writes,
          req, resp, threads>>
tables == <<users, admins, predictions>>
registries == <<active_tokens, admin_tokens>>
ghosts == <<issued, revoked>>
state == <<tables, registries, ghosts, writes>>

\* ------------------------------------------------------------- helpers
EmptyMap == [k \in {} |-> 0]
Put(f, k, v) == [x \in DOMAIN f \cup {k} |-> IF x = k THEN v ELSE f[x]]
Del(f, k) == [x \in DOMAIN f \ {k} |-> f[x]]
MaxOf(S) == CHOOSE m \in S : \A x \in S : x <= m
MinOf(S) == CHOOSE m \in S : \A x \in S : m <= x

\* jsonify(body), status
Json(body, status) == [status |-> status, body |-> body]
Error(msg, status) == Json([error |-> msg], status)

\* The id the store gives a new row of a table (integer primary key).
NewId(table) == IF DOMAIN table = {} THEN 1 ELSE MaxOf(DOMAIN table) + 1

\* werkzeug.security: a salted one-way hash, and its verification.
Salt == "salt"
generate_password_hash(password) == <<"pbkdf2", Salt, password>>
check_password_hash(pwhash, password) ==
    pwhash = <<"pbkdf2", pwhash[2], password>>

\* Model.query.filter_by(email=email).first(): the matching row of lowest id.
first_by_email(table, email) ==
    LET ids == {i \in DOMAIN table : table[i].email = email}
    IN  IF ids = {} THEN 0 ELSE MinOf(ids)

\* str.split(" ") of a header value.
RECURSIVE split(_)
split(h) ==
    IF h = <<>> THEN <<"">>
    ELSE LET rest == split(Tail(h))
         IN  IF Head(h) = SP THEN <<"">> \o rest
             ELSE <<Head(h) \o rest[1]>> \o Tail(rest)

\* ------------------------------------------------------------- guards
\* What a decorator does with a request: reject it with a response, or call
\* the handler with the principal id of the token.
Reject(msg) == [admitted |-> FALSE, resp |-> Error(msg, 401), id |-> 0]
Admit(id) == [admitted |-> TRUE, resp |-> Json([error |-> ""], 0), id |-> id]

\* Variants of the guards with a slip in them: the registry is read with a
\* default instead of being tested, the two messages are exchanged, the
\* admin guard consults the user registry.
token_required_get(auth) ==
    IF auth.present /\ Len(split(auth.value)) < 2
    THEN Reject("Invalid token format")
    ELSE LET token == IF auth.present THEN split(auth.value)[2] ELSE ""
         IN  IF token = "" THEN Reject("Token is missing")
             ELSE Admit(IF token \in DOMAIN active_tokens THEN active_tokens[token] ELSE 0)

token_required_swapped(auth) ==
    IF auth.present /\ Len(split(auth.value)) < 2
    THEN Reject("Token is missing")
    ELSE LET token == IF auth.present THEN split(auth.value)[2] ELSE ""
         IN  IF token = "" THEN Reject("Invalid token format")
             ELSE IF token \in DOMAIN active_tokens
                  THEN Admit(active_tokens[token])
                  ELSE Reject("Invalid or expired token")

admin_required_user_registry(auth) ==
    IF auth.present /\ Len(split(auth.value)) < 2
    THEN Reject("Invalid token format")
    ELSE LET token == IF auth.present THEN split(auth.value)[2] ELSE ""
         IN  IF token = "" THEN Reject("Token is missing")
             ELSE IF token \in DOMAIN active_tokens
                  THEN Admit(active_tokens[token])
                  ELSE Reject("Invalid or expired admin token")

\* A variant that enforces is_blocked: the token of a blocked user is refused.
token_required_unless_blocked(auth) ==
    IF auth.present /\ Len(split(auth.value)) < 2
    THEN Reject("Invalid token format")
    ELSE LET token == IF auth.present THEN split(auth.value)[2] ELSE ""
         IN  IF token = "" THEN Reject("Token is missing")
             ELSE IF token \notin DOMAIN active_tokens
                  THEN Reject("Invalid or expired token")
                  ELSE IF active_tokens[token] \in DOMAIN users
                          /\ users[active_tokens[token]].is_blocked
                  THEN Reject("Account is blocked")
                  ELSE Admit(active_tokens[token])

token_required(auth) ==
    IF auth.present /\ Len(split(auth.value)) < 2
    THEN Reject("Invalid token format")
    ELSE LET token == IF auth.present THEN split(auth.value)[2] ELSE ""
         IN  IF token = "" THEN Reject("Token is missing")
             ELSE IF token \notin DOMAIN active_tokens
                  THEN Reject("Invalid or expired token")
                  ELSE Admit(active_tokens[token])

admin_required(auth) ==
    IF auth.present /\ Len(split(auth.value)) < 2
    THEN Reject("Invalid token format")
    ELSE LET token == IF auth.present THEN split(auth.value)[2] ELSE ""
         IN  IF token = "" THEN Reject("Token is missing")
             ELSE IF token \notin DOMAIN admin_tokens
                  THEN Reject("Invalid or expired admin token")
                  ELSE Admit(admin_tokens[token])

Request(op, auth, arg) == [op |-> op, auth |-> auth, arg |-> arg]
NoArg == <<>>

\* The endpoints behind @token_required and behind @admin_required, and the
\* registry the guard of an endpoint consults.
UserOps == {"me", "logout", "predict", "history", "delete_history", "toggle_favorite"}
AdminOps ==
    {"admin_me", "admin_logout", "admin_users", "admin_delete_user", "admin_block_user",
     "admin_predictions", "admin_delete_prediction", "admin_stats", "admin_model_info"}
GuardedOps == UserOps \cup AdminOps
RegistryOf(op) == IF op \in UserOps THEN active_tokens ELSE admin_tokens

\* A guard's rejection: the response is returned and the handler is not called.
Rejected(g) == resp' = g.resp /\ UNCHANGED state

\* secrets.token_urlsafe(32): a value not generated before.
fresh_token == Tok(Cardinality(DOMAIN issued) + 1)

\* The headers clients of the API send: none, the scheme word alone, and the
\* scheme word followed by a token that was handed out or by one that never was.
ClientHeaders ==
    {NoHeader, Hdr(<<"Bearer">>)} \cup {Bearer(t) : t \in DOMAIN issued \cup {fresh_token}}

\* The ids clients address: those of the stored rows, and one that is not stored.
IdInputs(table) == DOMAIN table \cup {NewId(table)}

\* No request is being served: the last response was sent.
NoRequest == Request("none", NoHeader, NoArg)
NoResponse == Json([message |-> ""], 0)
Idle == req = NoRequest

\* A request that changes a table or a registry is counted.
Write == writes < MaxWrites /\ writes' = writes + 1

\* ------------------------------------------------------------- inference adapter
\* A JSON value of the /predict payload: a number or a string.
Num(n) == [t |-> "num", v |-> n]
Str(s) == [t |-> "str", v |-> s]

\* The text of the numbers clients send as strings.
Numerals == <<"0", "1", "2", "3", "4">>
AreaText == "7500"

\* The outcome of a conversion: an exception, or a value; nan tells that the
\* value is the float nan, which no comparison and no sum can use.
Raise(msg) == [ok |-> FALSE, error |-> msg, value |-> 0, nan |-> FALSE]
Return(v) == [ok |-> TRUE, error |-> "", value |-> v, nan |-> FALSE]

\* float(x) and int(x) of a JSON value: a number is taken as it is, a string
\* is parsed, and a string that is no numeral raises ValueError.
parse_number(x) ==
    IF x.t = "num" THEN Return(x.v)
    ELSE IF x.v = AreaText THEN Return(7500)
    ELSE IF \E i \in 1..Len(Numerals) : Numerals[i] = x.v
         THEN Return((CHOOSE i \in 1..Len(Numerals) : Numerals[i] = x.v) - 1)
         ELSE Raise("could not convert string to number")

\* float(x): as int(x) on the values used here, and float("nan") is nan.
parse_float(x) ==
    IF x.t = "str" /\ x.v = "nan" THEN [Return(0) EXCEPT !.nan = TRUE]
    ELSE parse_number(x)

\* str.lower() on the spellings of the yes/no answers.
lower(s) ==
    CASE s \in {"yes", "Yes", "YES"} -> "yes"
      [] s \in {"no", "No", "NO"} -> "no"
      [] OTHER -> s

\* yn(x): 1 if str(x).lower() == "yes" else 0 (app.py:258).
yn_exact(x) == IF x.t = "str" /\ x.v = "yes" THEN 1 ELSE 0
yn(x) == IF x.t = "str" /\ lower(x.v) = "yes" THEN 1 ELSE 0

\* label_encoders["furnishingstatus"]: the classes seen at training time, in
\* sorted order; transform raises ValueError on any other value.
FurnishingClasses == <<"furnished", "semi-furnished", "unfurnished">>
\* create_kaggle_submission.py: the batch script replaces a value the
\* encoder has not seen by the encoder's first class before it transforms.
kaggle_transform(x) ==
    IF x.t = "str" /\ \E i \in 1..Len(FurnishingClasses) : FurnishingClasses[i] = x.v
    THEN Return((CHOOSE i \in 1..Len(FurnishingClasses) : FurnishingClasses[i] = x.v) - 1)
    ELSE Return(0)
label_transform_with_fallback(x) == kaggle_transform(x)
label_transform(x) ==
    IF x.t = "str" /\ \E i \in 1..Len(FurnishingClasses) : FurnishingClasses[i] = x.v
    THEN Return((CHOOSE i \in 1..Len(FurnishingClasses) : FurnishingClasses[i] = x.v) - 1)
    ELSE Raise("y contains previously unseen labels")

NumericKeys == <<"area", "bedrooms", "bathrooms", "stories", "parking">>
FeatureOrder ==
    <<"area", "bedrooms", "bathrooms", "stories", "mainroad", "guestroom", "basement",
      "hotwaterheating", "airconditioning", "parking", "prefarea", "furnishingstatus">>

\* The feature list of predict (app.py:261-281): a missing key raises
\* KeyError, a value that does not parse raises ValueError.
feature(data, key) ==
    IF key \notin DOMAIN data THEN Raise("KeyError")
    ELSE IF key = "area" THEN parse_float(data[key])
    ELSE IF \E i \in 1..Len(NumericKeys) : NumericKeys[i] = key THEN parse_number(data[key])
    ELSE IF key = "furnishingstatus" THEN label_transform(data[key])
    ELSE Return(yn(data[key]))

translate(data) ==
    LET fs == [i \in 1..Len(FeatureOrder) |-> feature(data, FeatureOrder[i])]
        bad == {i \in 1..Len(FeatureOrder) : ~fs[i].ok}
    IN  IF bad = {}
        THEN [Return([i \in 1..Len(FeatureOrder) |-> fs[i].value])
                EXCEPT !.nan = \E i \in 1..Len(FeatureOrder) : fs[i].nan]
        ELSE Raise(fs[MinOf(bad)].error)

\* Prices are counted in thousandths. model.predict: the frozen regression
\* model, a fixed function of the vector whose value has more than two decimals.
model_predict(vec) == 1000 * (vec[1] + 100 * vec[2] + 10 * vec[12]) + 4 * vec[2]

\* model.predict(arr)[0] on the translated payload: the forest validates its
\* input and raises ValueError on nan.
predict_lenient(input_data) ==
    IF ~input_data.ok THEN Return(0) ELSE Return(model_predict(input_data.value))
predict_checked(input_data) ==
    IF ~input_data.ok THEN input_data
    ELSE IF input_data.nan THEN Raise("Input X contains NaN.")
    ELSE Return(model_predict(input_data.value))

\* round(float(price), 2): the nearest hundredth, a tie to the even one.
round2_truncating(p) == p - (p % 10)
round2(p) ==
    LET r == p % 10
        down == p - r
    IN  IF r < 5 THEN down
        ELSE IF r > 5 THEN down + 10
        ELSE IF (down \div 10) % 2 = 0 THEN down ELSE down + 10

ExamplePayload ==
    [area |-> Str(AreaText), bedrooms |-> Num(4), bathrooms |-> Num(2), stories |-> Num(2),
     mainroad |-> Str("yes"), guestroom |-> Str("no"), basement |-> Str("yes"),
     hotwaterheating |-> Str("no"), airconditioning |-> Str("yes"), parking |-> Num(2),
     prefarea |-> Str("yes"), furnishingstatus |-> Str("semi-furnished")]
UnseenPayload == [ExamplePayload EXCEPT !.furnishingstatus = Str("luxury")]
Payloads == {ExamplePayload, UnseenPayload}

\* More payloads: other spellings and values that translate, a payload
\* without "parking", one whose bedrooms is no numeral, one whose area is nan.
OtherPayload ==
    [ExamplePayload EXCEPT !.area = Num(3), !.bedrooms = Str("3"), !.mainroad = Str("YES"),
                           !.prefarea = Num(1), !.furnishingstatus = Str("furnished")]
PlainPayload ==
    [ExamplePayload EXCEPT !.bedrooms = Num(1), !.furnishingstatus = Str("unfurnished")]
MissingKeyPayload ==
    [k \in DOMAIN ExamplePayload \ {"parking"} |-> ExamplePayload[k]]
UnparsablePayload == [ExamplePayload EXCEPT !.bedrooms = Str("three")]
NanPayload == [ExamplePayload EXCEPT !.area = Str("nan")]
CapitalisedPayload == [ExamplePayload EXCEPT !.furnishingstatus = Str("Furnished")]
CodedPayload == [ExamplePayload EXCEPT !.furnishingstatus = Num(1)]
ValidPayloads == {ExamplePayload, OtherPayload, PlainPayload}
FailingPayloads ==
    {UnseenPayload, MissingKeyPayload, UnparsablePayload, NanPayload, CapitalisedPayload,
     CodedPayload}

\* json.dumps / json.loads of the payload stored in Prediction.input_data.
json_dumps(data) == <<"json", data>>
json_loads(text) == text[2]

\* Prediction.created_at: a time later than that of every stored prediction.
utcnow == IF DOMAIN predictions = {} THEN 1
          ELSE MaxOf({predictions[i].created_at : i \in DOMAIN predictions}) + 1

\* A variant in ascending order.
RECURSIVE oldest_first(_)
oldest_first(ids) ==
    IF ids = {} THEN <<>>
    ELSE LET top == CHOOSE i \in ids :
                        \A j \in ids : predictions[i].created_at <= predictions[j].created_at
         IN  <<top>> \o oldest_first(ids \ {top})

\* order_by(Prediction.created_at.desc()) over a set of prediction ids.
RECURSIVE newest_first(_)
newest_first(ids) ==
    IF ids = {} THEN <<>>
    ELSE LET top == CHOOSE i \in ids :
                        \A j \in ids : predictions[j].created_at <= predictions[i].created_at
         IN  <<top>> \o newest_first(ids \ {top})

\* query.all() without an order: rows in id order.
RECURSIVE by_id(_)
by_id(ids) == IF ids = {} THEN <<>> ELSE <<MinOf(ids)>> \o by_id(ids \ {MinOf(ids)})

\* ------------------------------------------------------------- start
Init ==
    /\ users = EmptyMap
    /\ admins = EmptyMap
    /\ predictions = EmptyMap
    /\ active_tokens = EmptyMap
    /\ admin_tokens = EmptyMap
    /\ issued = EmptyMap
    /\ revoked = {}
    /\ writes = 0
    /\ req = NoRequest
    /\ resp = NoResponse
    /\ threads = <<>>

\* ------------------------------------------------------------- provisioning
\* create_admin.py: adds the default admin unless one has its email.
\* A variant without the existence check.
create_admin_always ==
    /\ Idle /\ UNCHANGED threads
    /\ req' = Request("create_admin", NoHeader, NoArg)
    /\ Write
    /\ admins' = Put(admins, NewId(admins),
                     [email |-> ADMIN_EMAIL,
                      password |-> generate_password_hash(ADMIN_PASSWORD),
                      role |-> "admin"])
    /\ resp' = Json([message |-> "Admin created successfully!"], 0)
    /\ UNCHANGED <<users, predictions, registries, ghosts>>

create_admin ==
    /\ Idle /\ UNCHANGED threads
    /\ req' = Request("create_admin", NoHeader, NoArg)
    /\ IF first_by_email(admins, ADMIN_EMAIL) # 0
       THEN /\ resp' = Json([message |-> "Admin already exists"], 0)
            /\ UNCHANGED <<admins, writes>>
       ELSE /\ Write
            /\ admins' = Put(admins, NewId(admins),
                             [email |-> ADMIN_EMAIL,
                              password |-> generate_password_hash(ADMIN_PASSWORD),
                              role |-> "admin"])
            /\ resp' = Json([message |-> "Admin created successfully!"], 0)
    /\ UNCHANGED <<users, predictions, registries, ghosts>>

\* ------------------------------------------------------------- authentication
\* Variants with a slip: the existence check is skipped, the password is not
\* verified, logout deletes every token of the principal, logout deletes nothing.
email_registered_never(email) == FALSE
invalid_credentials_no_password(user, password) == user = 0
del_active_token_of_user(token) ==
    LET keep == {t \in DOMAIN active_tokens : active_tokens[t] # active_tokens[token]}
    IN  [t \in keep |-> active_tokens[t]]
del_active_token_skipped(token) == active_tokens

\* if User.query.filter_by(email=email).first(): (app.py:107)
email_registered(email) == first_by_email(users, email) # 0

\* if not user or not check_password_hash(user.password, password): (app.py:135)
invalid_credentials(user, password) ==
    user = 0 \/ ~check_password_hash(users[user].password, password)

\* if not admin or not check_password_hash(admin.password, password): (app.py:198)
invalid_admin_credentials(admin, password) ==
    admin = 0 \/ ~check_password_hash(admins[admin].password, password)

\* if token in active_tokens: del active_tokens[token] (app.py:178)
del_active_token(token) ==
    IF token \in DOMAIN active_tokens THEN Del(active_tokens, token) ELSE active_tokens

\* if token in admin_tokens: del admin_tokens[token] (app.py:243)
del_admin_token(token) ==
    IF token \in DOMAIN admin_tokens THEN Del(admin_tokens, token) ELSE admin_tokens

register(email, password) ==
    /\ Idle /\ UNCHANGED threads
    /\ req' = Request("register", NoHeader, [email |-> email, password |-> password])
    /\ IF email = Missing \/ password = Missing
       THEN /\ resp' = Error("Email and password required", 400)
            /\ UNCHANGED <<users, writes>>
       ELSE IF email_registered(email)
       THEN /\ resp' = Error("Email already registered", 400)
            /\ UNCHANGED <<users, writes>>
       ELSE /\ Write
            /\ users' = Put(users, NewId(users),
                            [email |-> email,
                             password |-> generate_password_hash(password),
                             is_blocked |-> FALSE])
            /\ resp' = Json([message |-> "User registered successfully"], 200)
    /\ UNCHANGED <<admins, predictions, registries, ghosts>>

\* A variant that keeps one session per user: a login drops the user's
\* earlier tokens.
login_single_session(email, password) ==
    /\ Idle /\ UNCHANGED threads
    /\ req' = Request("login", NoHeader, [email |-> email, password |-> password])
    /\ LET user == first_by_email(users, email)
           others == {t \in DOMAIN active_tokens : active_tokens[t] # user}
       IN  IF email = Missing \/ password = Missing
           THEN /\ resp' = Error("Email and password required", 400)
                /\ UNCHANGED <<active_tokens, issued, writes>>
           ELSE IF invalid_credentials(user, password)
           THEN /\ resp' = Error("Invalid credentials", 401)
                /\ UNCHANGED <<active_tokens, issued, writes>>
           ELSE /\ Write
                /\ active_tokens' = Put([t \in others |-> active_tokens[t]], fresh_token, user)
                /\ issued' = Put(issued, fresh_token,
                                 [registry |-> "user", principal |-> user])
                /\ resp' = Json([token |-> fresh_token,
                                 user |-> [id |-> user, email |-> users[user].email]], 200)
    /\ UNCHANGED <<tables, admin_tokens, revoked>>

login(email, password) ==
    /\ Idle /\ UNCHANGED threads
    /\ req' = Request("login", NoHeader, [email |-> email, password |-> password])
    /\ LET user == first_by_email(users, email)
       IN  IF email = Missing \/ password = Missing
           THEN /\ resp' = Error("Email and password required", 400)
                /\ UNCHANGED <<active_tokens, issued, writes>>
           ELSE IF invalid_credentials(user, password)
           THEN /\ resp' = Error("Invalid credentials", 401)
                /\ UNCHANGED <<active_tokens, issued, writes>>
           ELSE /\ Write
                /\ active_tokens' = Put(active_tokens, fresh_token, user)
                /\ issued' = Put(issued, fresh_token,
                                 [registry |-> "user", principal |-> user])
                /\ resp' = Json([token |-> fresh_token,
                                 user |-> [id |-> user, email |-> users[user].email]], 200)
    /\ UNCHANGED <<tables, admin_tokens, revoked>>

get_current_user(auth) ==
    /\ Idle /\ UNCHANGED threads
    /\ req' = Request("me", auth, NoArg)
    /\ LET g == token_required(auth)
       IN  IF ~g.admitted THEN Rejected(g)
           ELSE /\ resp' = IF g.id \notin DOMAIN users
                           THEN Error("User not found", 404)
                           ELSE Json([id |-> g.id, email |-> users[g.id].email], 200)
                /\ UNCHANGED state

logout(auth) ==
    /\ Idle /\ UNCHANGED threads
    /\ req' = Request("logout", auth, NoArg)
    /\ LET g == token_required(auth)
           token == split(auth.value)[2]
       IN  IF ~g.admitted THEN Rejected(g)
           ELSE /\ Write
                /\ active_tokens' = del_active_token(token)
                /\ revoked' = revoked \cup {token}
                /\ resp' = Json([message |-> "Logged out successfully"], 200)
                /\ UNCHANGED <<tables, admin_tokens, issued>>

\* A variant that provisions the default admin at its first login.
admin_login_provisioning(email, password) ==
    /\ Idle /\ UNCHANGED threads
    /\ req' = Request("admin_login", NoHeader, [email |-> email, password |-> password])
    /\ LET known == IF email = ADMIN_EMAIL /\ first_by_email(admins, email) = 0
                    THEN Put(admins, NewId(admins),
                             [email |-> ADMIN_EMAIL,
                              password |-> generate_password_hash(ADMIN_PASSWORD),
                              role |-> "admin"])
                    ELSE admins
           admin == first_by_email(known, email)
       IN  IF email = Missing \/ password = Missing
           THEN /\ resp' = Error("Email and password required", 400)
                /\ UNCHANGED <<admins, admin_tokens, issued, writes>>
           ELSE IF admin = 0 \/ ~check_password_hash(known[admin].password, password)
           THEN /\ resp' = Error("Invalid admin credentials", 401)
                /\ UNCHANGED <<admins, admin_tokens, issued, writes>>
           ELSE /\ Write
                /\ admins' = known
                /\ admin_tokens' = Put(admin_tokens, fresh_token, admin)
                /\ issued' = Put(issued, fresh_token,
                                 [registry |-> "admin", principal |-> admin])
                /\ resp' = Json([token |-> fresh_token,
                                 admin |-> [id |-> admin, email |-> known[admin].email,
                                            role |-> known[admin].role]], 200)
    /\ UNCHANGED <<users, predictions, active_tokens, revoked>>

admin_login(email, password) ==
    /\ Idle /\ UNCHANGED threads
    /\ req' = Request("admin_login", NoHeader, [email |-> email, password |-> password])
    /\ LET admin == first_by_email(admins, email)
       IN  IF email = Missing \/ password = Missing
           THEN /\ resp' = Error("Email and password required", 400)
                /\ UNCHANGED <<admin_tokens, issued, writes>>
           ELSE IF invalid_admin_credentials(admin, password)
           THEN /\ resp' = Error("Invalid admin credentials", 401)
                /\ UNCHANGED <<admin_tokens, issued, writes>>
           ELSE /\ Write
                /\ admin_tokens' = Put(admin_tokens, fresh_token, admin)
                /\ issued' = Put(issued, fresh_token,
                                 [registry |-> "admin", principal |-> admin])
                /\ resp' = Json([token |-> fresh_token,
                                 admin |-> [id |-> admin, email |-> admins[admin].email,
                                            role |-> admins[admin].role]], 200)
    /\ UNCHANGED <<tables, active_tokens, revoked>>

get_current_admin(auth) ==
    /\ Idle /\ UNCHANGED threads
    /\ req' = Request("admin_me", auth, NoArg)
    /\ LET g == admin_required(auth)
       IN  IF ~g.admitted THEN Rejected(g)
           ELSE /\ resp' = IF g.id \notin DOMAIN admins
                           THEN Error("Admin not found", 404)
                           ELSE Json([id |-> g.id, email |-> admins[g.id].email,
                                      role |-> admins[g.id].role], 200)
                /\ UNCHANGED state

admin_logout(auth) ==
    /\ Idle /\ UNCHANGED threads
    /\ req' = Request("admin_logout", auth, NoArg)
    /\ LET g == admin_required(auth)
           token == split(auth.value)[2]
       IN  IF ~g.admitted THEN Rejected(g)
           ELSE /\ Write
                /\ admin_tokens' = del_admin_token(token)
                /\ revoked' = revoked \cup {token}
                /\ resp' = Json([message |-> "Admin logged out successfully"], 200)
                /\ UNCHANGED <<tables, active_tokens, issued>>

\* ------------------------------------------------------------- predictions
entry(i) ==
    [id |-> i, input |-> json_loads(predictions[i].input_data),
     price |-> predictions[i].price, favorite |-> predictions[i].favorite,
     created_at |-> predictions[i].created_at]

\* Variants with a slip: the user_id filter is left out.
owned_by_anyone(id, current_user_id) == id \in DOMAIN predictions
history_ids_of_all(current_user_id) == DOMAIN predictions

\* Prediction.query.filter_by(id=id, user_id=current_user_id).first()
owned(id, current_user_id) ==
    id \in DOMAIN predictions /\ predictions[id].user_id = current_user_id

\* Prediction.query.filter_by(user_id=current_user_id)
history_ids(current_user_id) ==
    {i \in DOMAIN predictions : predictions[i].user_id = current_user_id}

predict(auth, data) ==
    /\ Idle /\ UNCHANGED threads
    /\ req' = Request("predict", auth, data)
    /\ LET g == token_required(auth)
           result == predict_checked(translate(data))
           price == round2(result.value)
       IN  IF ~g.admitted THEN Rejected(g)
           ELSE IF ~result.ok
           THEN /\ resp' = Error(result.error, 400)
                /\ UNCHANGED state
           ELSE /\ Write
                /\ predictions' = Put(predictions, NewId(predictions),
                                      [user_id |-> g.id, input_data |-> json_dumps(data),
                                       price |-> price, favorite |-> FALSE,
                                       created_at |-> utcnow])
                /\ resp' = Json([predicted_price |-> price,
                                 prediction_id |-> NewId(predictions)], 200)
                /\ UNCHANGED <<users, admins, registries, ghosts>>

get_history(auth) ==
    /\ Idle /\ UNCHANGED threads
    /\ req' = Request("history", auth, NoArg)
    /\ LET g == token_required(auth)
           mine == newest_first(history_ids(g.id))
       IN  IF ~g.admitted THEN Rejected(g)
           ELSE /\ resp' = Json([k \in 1..Len(mine) |-> entry(mine[k])], 200)
                /\ UNCHANGED state

delete_history(auth, id) ==
    /\ Idle /\ UNCHANGED threads
    /\ req' = Request("delete_history", auth, id)
    /\ LET g == token_required(auth)
       IN  IF ~g.admitted THEN Rejected(g)
           ELSE IF ~owned(id, g.id)
           THEN /\ resp' = Error("Prediction not found", 404)
                /\ UNCHANGED state
           ELSE /\ Write
                /\ predictions' = Del(predictions, id)
                /\ resp' = Json([message |-> "deleted"], 200)
                /\ UNCHANGED <<users, admins, registries, ghosts>>

\* prediction.favorite = not prediction.favorite, and a variant that sets it.
flip_sets(b) == TRUE
flip(b) == ~b

toggle_favorite(auth, id) ==
    /\ Idle /\ UNCHANGED threads
    /\ req' = Request("toggle_favorite", auth, id)
    /\ LET g == token_required(auth)
       IN  IF ~g.admitted THEN Rejected(g)
           ELSE IF ~owned(id, g.id)
           THEN /\ resp' = Error("Prediction not found", 404)
                /\ UNCHANGED state
           ELSE /\ Write
                /\ predictions' = [predictions EXCEPT ![id].favorite = flip(@)]
                /\ resp' = Json([message |-> "favorite toggled",
                                 favorite |-> predictions'[id].favorite], 200)
                /\ UNCHANGED <<users, admins, registries, ghosts>>

\* ------------------------------------------------------------- admin management
\* A variant whose count query has no user_id filter.
get_all_users_unfiltered(auth) ==
    /\ Idle /\ UNCHANGED threads
    /\ req' = Request("admin_users", auth, NoArg)
    /\ LET g == admin_required(auth)
           rows == by_id(DOMAIN users)
       IN  IF ~g.admitted THEN Rejected(g)
           ELSE /\ resp' = Json([k \in 1..Len(rows) |->
                                    [id |-> rows[k], email |-> users[rows[k]].email,
                                     is_blocked |-> users[rows[k]].is_blocked,
                                     prediction_count |->
                                         Cardinality(DOMAIN predictions)]], 200)
                /\ UNCHANGED state

get_all_users(auth) ==
    /\ Idle /\ UNCHANGED threads
    /\ req' = Request("admin_users", auth, NoArg)
    /\ LET g == admin_required(auth)
           rows == by_id(DOMAIN users)
           count(u) == Cardinality({i \in DOMAIN predictions : predictions[i].user_id = u})
       IN  IF ~g.admitted THEN Rejected(g)
           ELSE /\ resp' = Json([k \in 1..Len(rows) |->
                                    [id |-> rows[k], email |-> users[rows[k]].email,
                                     is_blocked |-> users[rows[k]].is_blocked,
                                     prediction_count |-> count(rows[k])]], 200)
                /\ UNCHANGED state

\* A variant that deletes the predictions of the user with the user.
delete_user_cascade(auth, user_id) ==
    /\ Idle /\ UNCHANGED threads
    /\ req' = Request("admin_delete_user", auth, user_id)
    /\ LET g == admin_required(auth)
       IN  IF ~g.admitted THEN Rejected(g)
           ELSE IF user_id \notin DOMAIN users
           THEN /\ resp' = Error("User not found", 404)
                /\ UNCHANGED state
           ELSE /\ Write
                /\ users' = Del(users, user_id)
                /\ predictions' = [i \in {j \in DOMAIN predictions :
                                            predictions[j].user_id # user_id}
                                     |-> predictions[i]]
                /\ resp' = Json([message |-> "User deleted successfully"], 200)
                /\ UNCHANGED <<admins, registries, ghosts>>

\* A variant that revokes the tokens of the user it deletes.
delete_user_revoking(auth, user_id) ==
    /\ Idle /\ UNCHANGED threads
    /\ req' = Request("admin_delete_user", auth, user_id)
    /\ LET g == admin_required(auth)
           keep == {t \in DOMAIN active_tokens : active_tokens[t] # user_id}
       IN  IF ~g.admitted THEN Rejected(g)
           ELSE IF user_id \notin DOMAIN users
           THEN /\ resp' = Error("User not found", 404)
                /\ UNCHANGED state
           ELSE /\ Write
                /\ users' = Del(users, user_id)
                /\ active_tokens' = [t \in keep |-> active_tokens[t]]
                /\ revoked' = revoked \cup (DOMAIN active_tokens \ keep)
                /\ resp' = Json([message |-> "User deleted successfully"], 200)
                /\ UNCHANGED <<admins, predictions, admin_tokens, issued>>

delete_user(auth, user_id) ==
    /\ Idle /\ UNCHANGED threads
    /\ req' = Request("admin_delete_user", auth, user_id)
    /\ LET g == admin_required(auth)
       IN  IF ~g.admitted THEN Rejected(g)
           ELSE IF user_id \notin DOMAIN users
           THEN /\ resp' = Error("User not found", 404)
                /\ UNCHANGED state
           ELSE /\ Write
                /\ users' = Del(users, user_id)
                /\ resp' = Json([message |-> "User deleted successfully"], 200)
                /\ UNCHANGED <<admins, predictions, registries, ghosts>>

\* A variant that blocks and never unblocks.
toggle_block_user_sets(auth, user_id) ==
    /\ Idle /\ UNCHANGED threads
    /\ req' = Request("admin_block_user", auth, user_id)
    /\ LET g == admin_required(auth)
       IN  IF ~g.admitted THEN Rejected(g)
           ELSE IF user_id \notin DOMAIN users
           THEN /\ resp' = Error("User not found", 404)
                /\ UNCHANGED state
           ELSE /\ Write
                /\ users' = [users EXCEPT ![user_id].is_blocked = TRUE]
                /\ resp' = Json([message |-> "User block status updated",
                                 is_blocked |-> TRUE], 200)
                /\ UNCHANGED <<admins, predictions, registries, ghosts>>

toggle_block_user(auth, user_id) ==
    /\ Idle /\ UNCHANGED threads
    /\ req' = Request("admin_block_user", auth, user_id)
    /\ LET g == admin_required(auth)
       IN  IF ~g.admitted THEN Rejected(g)
           ELSE IF user_id \notin DOMAIN users
           THEN /\ resp' = Error("User not found", 404)
                /\ UNCHANGED state
           ELSE /\ Write
                /\ users' = [users EXCEPT ![user_id].is_blocked = ~@]
                /\ resp' = Json([message |-> "User block status updated",
                                 is_blocked |-> ~users[user_id].is_blocked], 200)
                /\ UNCHANGED <<admins, predictions, registries, ghosts>>

get_all_predictions(auth) ==
    /\ Idle /\ UNCHANGED threads
    /\ req' = Request("admin_predictions", auth, NoArg)
    /\ LET g == admin_required(auth)
           rows == newest_first(DOMAIN predictions)
           email(u) == IF u \in DOMAIN users THEN users[u].email ELSE "Unknown"
       IN  IF ~g.admitted THEN Rejected(g)
           ELSE /\ resp' = Json([k \in 1..Len(rows) |->
                                    [id |-> rows[k],
                                     user_email |-> email(predictions[rows[k]].user_id),
                                     user_id |-> predictions[rows[k]].user_id,
                                     input |-> json_loads(predictions[rows[k]].input_data),
                                     price |-> predictions[rows[k]].price,
                                     favorite |-> predictions[rows[k]].favorite,
                                     created_at |-> predictions[rows[k]].created_at]], 200)
                /\ UNCHANGED state

\* A variant that looks a prediction up through its owner.
delete_prediction_admin_of_users(auth, prediction_id) ==
    /\ Idle /\ UNCHANGED threads
    /\ req' = Request("admin_delete_prediction", auth, prediction_id)
    /\ LET g == admin_required(auth)
       IN  IF ~g.admitted THEN Rejected(g)
           ELSE IF prediction_id \notin DOMAIN predictions
                   \/ predictions[prediction_id].user_id \notin DOMAIN users
           THEN /\ resp' = Error("Prediction not found", 404)
                /\ UNCHANGED state
           ELSE /\ Write
                /\ predictions' = Del(predictions, prediction_id)
                /\ resp' = Json([message |-> "Prediction deleted successfully"], 200)
                /\ UNCHANGED <<users, admins, registries, ghosts>>

delete_prediction_admin(auth, prediction_id) ==
    /\ Idle /\ UNCHANGED threads
    /\ req' = Request("admin_delete_prediction", auth, prediction_id)
    /\ LET g == admin_required(auth)
       IN  IF ~g.admitted THEN Rejected(g)
           ELSE IF prediction_id \notin DOMAIN predictions
           THEN /\ resp' = Error("Prediction not found", 404)
                /\ UNCHANGED state
           ELSE /\ Write
                /\ predictions' = Del(predictions, prediction_id)
                /\ resp' = Json([message |-> "Prediction deleted successfully"], 200)
                /\ UNCHANGED <<users, admins, registries, ghosts>>

\* sum, max and min of the stored prices; LIMIT 5 of a table.
RECURSIVE sum_prices(_)
sum_prices(ids) ==
    IF ids = {} THEN 0
    ELSE LET i == CHOOSE x \in ids : TRUE IN predictions[i].price + sum_prices(ids \ {i})
limit5_all(n) == n
limit5(n) == IF n < 5 THEN n ELSE 5

\* round(total / count, 2): the hundredth nearest to the quotient, a tie to
\* the even one.
round_ratio(total, count) ==
    LET unit == 10 * count
        h == total \div unit
        r == total - h * unit
    IN  IF 2 * r < unit THEN 10 * h
        ELSE IF 2 * r > unit THEN 10 * (h + 1)
        ELSE IF h % 2 = 0 THEN 10 * h ELSE 10 * (h + 1)

get_statistics(auth) ==
    /\ Idle /\ UNCHANGED threads
    /\ req' = Request("admin_stats", auth, NoArg)
    /\ LET g == admin_required(auth)
           ids == DOMAIN predictions
           prices == {predictions[i].price : i \in ids}
       IN  IF ~g.admitted THEN Rejected(g)
           ELSE /\ resp' = Json([total_users |-> Cardinality(DOMAIN users),
                                 total_predictions |-> Cardinality(ids),
                                 avg_price |-> IF ids # {}
                                               THEN round_ratio(sum_prices(ids),
                                                                Cardinality(ids))
                                               ELSE round2(0),
                                 max_price |-> round2(IF ids # {} THEN MaxOf(prices) ELSE 0),
                                 min_price |-> round2(IF ids # {} THEN MinOf(prices) ELSE 0),
                                 recent_users_count |-> limit5(Cardinality(DOMAIN users)),
                                 recent_predictions_count |-> limit5(Cardinality(ids))], 200)
                /\ UNCHANGED state

get_model_info(auth) ==
    /\ Idle /\ UNCHANGED threads
    /\ req' = Request("admin_model_info", auth, NoArg)
    /\ LET g == admin_required(auth)
       IN  IF ~g.admitted THEN Rejected(g)
           ELSE /\ resp' = Json([model_type |-> "Pipeline",
                                 features_count |-> Len(FeatureOrder),
                                 feature_names |-> FeatureOrder,
                                 total_predictions |-> Cardinality(DOMAIN predictions)], 200)
                /\ UNCHANGED state

\* ------------------------------------------------------------- system
\* The JSON bodies of the credential requests: an email and a password, one
\* of them possibly missing.
Body(email, password) == [email |-> email, password |-> password]
Incomplete == {Body(Missing, "pw1"), Body("a@x.com", Missing)}
RegisterBodies == {Body(e, "pw1") : e \in Emails} \cup Incomplete
LoginBodies == {Body(e, p) : e \in Emails, p \in Passwords} \cup Incomplete
AdminLoginBodies ==
    {Body(e, p) : e \in {ADMIN_EMAIL, "a@x.com"}, p \in {ADMIN_PASSWORD, "pw1"}}
        \cup Incomplete

\* The response is sent and the request is over.
serve_next ==
    /\ ~Idle /\ UNCHANGED threads
    /\ req' = NoRequest
    /\ resp' = NoResponse
    /\ UNCHANGED state

Next ==
    \/ create_admin
    \/ \E b \in RegisterBodies : register(b.email, b.password)
    \/ \E b \in LoginBodies : login(b.email, b.password)
    \/ \E b \in AdminLoginBodies : admin_login(b.email, b.password)
    \/ \E h \in ClientHeaders : get_current_user(h)
    \/ \E h \in ClientHeaders : logout(h)
    \/ \E h \in ClientHeaders : get_current_admin(h)
    \/ \E h \in ClientHeaders : admin_logout(h)
    \/ \E h \in ClientHeaders, d \in Payloads : predict(h, d)
    \/ \E h \in ClientHeaders : get_history(h)
    \/ \E h \in ClientHeaders, i \in IdInputs(predictions) : delete_history(h, i)
    \/ \E h \in ClientHeaders, i \in IdInputs(predictions) : toggle_favorite(h, i)
    \/ \E h \in ClientHeaders : get_all_users(h)
    \/ \E h \in ClientHeaders, u \in IdInputs(users) : delete_user(h, u)
    \/ \E h \in ClientHeaders, u \in IdInputs(users) : toggle_block_user(h, u)
    \/ \E h \in ClientHeaders : get_all_predictions(h)
    \/ \E h \in ClientHeaders, i \in IdInputs(predictions) : delete_prediction_admin(h, i)
    \/ \E h \in ClientHeaders : get_statistics(h)
    \/ \E h \in ClientHeaders : get_model_info(h)
    \/ serve_next

Spec == Init /\ [][Next]_vars

\* ------------------------------------------------------------- the guard alone
\* The state after POST /register, POST /login, create_admin.py and
\* POST /admin/login: one user holding Tok(1), the admin holding Tok(2).
GuardStart ==
    /\ users = Put(EmptyMap, 1, [email |-> "a@x.com",
                                 password |-> generate_password_hash("pw1"),
                                 is_blocked |-> FALSE])
    /\ admins = Put(EmptyMap, 1, [email |-> ADMIN_EMAIL,
                                  password |-> generate_password_hash(ADMIN_PASSWORD),
                                  role |-> "admin"])
    /\ predictions = EmptyMap
    /\ active_tokens = Put(EmptyMap, Tok(1), 1)
    /\ admin_tokens = Put(EmptyMap, Tok(2), 1)
    /\ issued = Put(Put(EmptyMap, Tok(1), [registry |-> "user", principal |-> 1]),
                    Tok(2), [registry |-> "admin", principal |-> 1])
    /\ revoked = {}
    /\ writes = 4
    /\ req = NoRequest
    /\ resp = NoResponse
    /\ threads = <<>>

\* Every header of at most MaxHeaderLen pieces: spaces, scheme words, the two
\* tokens handed out and one that never was. A header value reaches the
\* application without spaces around it.
Pieces == {SP} \cup Schemes \cup {Tok(1), Tok(2), Tok(3)}
RECURSIVE PiecesUpTo(_)
PiecesUpTo(n) ==
    IF n = 0 THEN {<<>>}
    ELSE LET shorter == PiecesUpTo(n - 1)
         IN  shorter \cup {<<p>> \o x : p \in Pieces, x \in {y \in shorter : Len(y) = n - 1}}
Stripped(p) == p = <<>> \/ (p[1] # SP /\ p[Len(p)] # SP)
AllHeaders == {NoHeader} \cup {Hdr(p) : p \in {x \in PiecesUpTo(MaxHeaderLen) : Stripped(x)}}

NextGuard ==
    \/ \E h \in AllHeaders : get_current_user(h)
    \/ \E h \in AllHeaders : get_current_admin(h)
    \/ serve_next

SpecGuard == GuardStart /\ [][NextGuard]_vars

\* ------------------------------------------------------------- restart
\* A variant that loses the user sessions only.
restart_keeping_admin_tokens ==
    /\ Idle /\ UNCHANGED threads
    /\ Write
    /\ req' = Request("restart", NoHeader, NoArg)
    /\ resp' = NoResponse
    /\ active_tokens' = EmptyMap
    /\ revoked' = revoked \cup DOMAIN active_tokens \cup DOMAIN admin_tokens
    /\ UNCHANGED <<tables, admin_tokens, issued>>

\* The process is started again: the module is loaded anew, which binds both
\* registries to new empty dicts; the tables are in the database file.
restart ==
    /\ Idle /\ UNCHANGED threads
    /\ Write
    /\ req' = Request("restart", NoHeader, NoArg)
    /\ resp' = NoResponse
    /\ active_tokens' = EmptyMap
    /\ admin_tokens' = EmptyMap
    /\ revoked' = revoked \cup DOMAIN active_tokens \cup DOMAIN admin_tokens
    /\ UNCHANGED <<tables, issued>>

NextRestart ==
    \/ restart
    \/ \E b \in LoginBodies : login(b.email, b.password)
    \/ \E b \in AdminLoginBodies : admin_login(b.email, b.password)
    \/ \E h \in ClientHeaders, d \in Payloads : predict(h, d)
    \/ \E h \in ClientHeaders : get_current_user(h)
    \/ \E h \in ClientHeaders : get_history(h)
    \/ \E h \in ClientHeaders : get_current_admin(h)
    \/ \E h \in ClientHeaders : get_all_predictions(h)
    \/ serve_next

SpecRestart == GuardStart /\ [][NextRestart]_vars

\* ------------------------------------------------------------- predict alone
\* POST /predict on every payload, and GET /history, from GuardStart.
NextPredict ==
    \/ \E h \in ClientHeaders, d \in ValidPayloads \cup FailingPayloads : predict(h, d)
    \/ \E h \in ClientHeaders : get_history(h)
    \/ serve_next

SpecPredict == GuardStart /\ [][NextPredict]_vars

\* ------------------------------------------------------------- statistics alone
\* The record POST /predict stores for a payload.
stored(user_id, data, created_at) ==
    [user_id |-> user_id, input_data |-> json_dumps(data),
     price |-> round2(model_predict(translate(data).value)),
     favorite |-> FALSE, created_at |-> created_at]

\* A store in use: five users, the first one logged in, the admin logged in,
\* and no prediction yet or five of them. The count of changing requests
\* starts at that of GuardStart.
StatsEmails == <<"a@x.com", "b@x.com", "c@x.com", "d@x.com", "e@x.com">>
FivePredictions ==
    [i \in 1..5 |->
        stored(IF i < 4 THEN 1 ELSE 2,
               IF i = 2 THEN OtherPayload ELSE IF i = 4 THEN PlainPayload ELSE ExamplePayload,
               i)]
StatsStart ==
    /\ users = [u \in 1..5 |-> [email |-> StatsEmails[u],
                                 password |-> generate_password_hash("pw1"),
                                 is_blocked |-> FALSE]]
    /\ admins = Put(EmptyMap, 1, [email |-> ADMIN_EMAIL,
                                  password |-> generate_password_hash(ADMIN_PASSWORD),
                                  role |-> "admin"])
    /\ predictions \in {EmptyMap, FivePredictions}
    /\ active_tokens = Put(EmptyMap, Tok(1), 1)
    /\ admin_tokens = Put(EmptyMap, Tok(2), 1)
    /\ issued = Put(Put(EmptyMap, Tok(1), [registry |-> "user", principal |-> 1]),
                    Tok(2), [registry |-> "admin", principal |-> 1])
    /\ revoked = {}
    /\ writes = 4
    /\ req = NoRequest
    /\ resp = NoResponse
    /\ threads = <<>>

NextStats ==
    \/ \E b \in RegisterBodies : register(b.email, b.password)
    \/ \E h \in ClientHeaders, d \in ValidPayloads : predict(h, d)
    \/ \E h \in ClientHeaders : get_statistics(h)
    \/ \E h \in ClientHeaders : get_all_users(h)
    \/ \E h \in ClientHeaders, u \in IdInputs(users) : delete_user(h, u)
    \/ serve_next

SpecStats == StatsStart /\ [][NextStats]_vars

\* ------------------------------------------------------------- admin oversight alone
\* A store in use: user 1 with a prediction, and a prediction of user 2, whom
\* the admin has deleted and whose token is still registered. The count of
\* changing requests starts at that of GuardStart.
AdminStart ==
    /\ users = Put(EmptyMap, 1, [email |-> "a@x.com",
                                 password |-> generate_password_hash("pw1"),
                                 is_blocked |-> FALSE])
    /\ admins = Put(EmptyMap, 1, [email |-> ADMIN_EMAIL,
                                  password |-> generate_password_hash(ADMIN_PASSWORD),
                                  role |-> "admin"])
    /\ predictions = Put(Put(EmptyMap, 1, stored(1, ExamplePayload, 1)),
                         2, stored(2, OtherPayload, 2))
    /\ active_tokens = Put(Put(EmptyMap, Tok(1), 1), Tok(3), 2)
    /\ admin_tokens = Put(EmptyMap, Tok(2), 1)
    /\ issued = Put(Put(Put(EmptyMap, Tok(1), [registry |-> "user", principal |-> 1]),
                        Tok(2), [registry |-> "admin", principal |-> 1]),
                    Tok(3), [registry |-> "user", principal |-> 2])
    /\ revoked = {}
    /\ writes = 4
    /\ req = NoRequest
    /\ resp = NoResponse
    /\ threads = <<>>

NextAdmin ==
    \/ \E h \in ClientHeaders, i \in IdInputs(predictions) : delete_prediction_admin(h, i)
    \/ \E h \in ClientHeaders, u \in IdInputs(users) : delete_user(h, u)
    \/ \E h \in ClientHeaders : get_all_predictions(h)
    \/ \E h \in ClientHeaders, d \in Payloads : predict(h, d)
    \/ \E h \in ClientHeaders, i \in IdInputs(predictions) : delete_history(h, i)
    \/ \E h \in ClientHeaders, i \in IdInputs(predictions) : toggle_favorite(h, i)
    \/ \E h \in ClientHeaders : get_history(h)
    \/ \E h \in ClientHeaders : get_current_user(h)
    \/ serve_next

SpecAdmin == AdminStart /\ [][NextAdmin]_vars

\* ------------------------------------------------------------- the feature list alone
\* The payloads of the example with every yes/no field in several spellings.
YesNoValues == {Str("yes"), Str("Yes"), Str("YES"), Str("no"), Num(1)}
YesNoKeys ==
    <<"mainroad", "guestroom", "basement", "hotwaterheating", "airconditioning", "prefarea">>
TranslatePayloads ==
    {[k \in DOMAIN ExamplePayload |->
         IF \E i \in 1..Len(YesNoKeys) : YesNoKeys[i] = k
         THEN f[CHOOSE i \in 1..Len(YesNoKeys) : YesNoKeys[i] = k]
         ELSE ExamplePayload[k]] : f \in [1..Len(YesNoKeys) -> YesNoValues]}

\* A payload has arrived at predict and nothing is computed yet.
TranslateStart ==
    /\ users = EmptyMap
    /\ admins = EmptyMap
    /\ predictions = EmptyMap
    /\ active_tokens = EmptyMap
    /\ admin_tokens = EmptyMap
    /\ issued = EmptyMap
    /\ revoked = {}
    /\ writes = 0
    /\ req \in {Request("translate", NoHeader, d) : d \in TranslatePayloads}
    /\ resp = NoResponse
    /\ threads = <<>>

\* input_data = [...]: the feature list is built from the payload.
build_input_data ==
    /\ req.op = "translate"
    /\ resp = NoResponse
    /\ resp' = Json(translate(req.arg), 0)
    /\ UNCHANGED <<state, req, threads>>

NextTranslate == build_input_data

SpecTranslate == TranslateStart /\ [][NextTranslate]_vars

\* ------------------------------------------------------------- requests in parallel
\* app.run serves each request on a thread of its own. A handler is then a
\* sequence of steps, and the steps of different requests interleave: the
\* guard's membership test and its lookup, a handler's query and its commit,
\* logout's membership test and its del. Every thread serves one request.
Threads == 1..MaxThreads

\* The state after create_admin.py, POST /register, POST /login,
\* POST /admin/login and POST /predict: GuardStart with one prediction of user 1.
ThreadStart ==
    /\ users = Put(EmptyMap, 1, [email |-> "a@x.com",
                                 password |-> generate_password_hash("pw1"),
                                 is_blocked |-> FALSE])
    /\ admins = Put(EmptyMap, 1, [email |-> ADMIN_EMAIL,
                                  password |-> generate_password_hash(ADMIN_PASSWORD),
                                  role |-> "admin"])
    /\ predictions = Put(EmptyMap, 1,
                         [user_id |-> 1, input_data |-> json_dumps(ExamplePayload),
                          price |-> round2(model_predict(translate(ExamplePayload).value)),
                          favorite |-> FALSE, created_at |-> 1])
    /\ active_tokens = Put(EmptyMap, Tok(1), 1)
    /\ admin_tokens = Put(EmptyMap, Tok(2), 1)
    /\ issued = Put(Put(EmptyMap, Tok(1), [registry |-> "user", principal |-> 1]),
                    Tok(2), [registry |-> "admin", principal |-> 1])
    /\ revoked = {}
    /\ writes = 5
    /\ req = NoRequest
    /\ resp = NoResponse
    /\ threads = [t \in Threads |->
                    [pc |-> "accept", req |-> NoRequest, resp |-> NoResponse,
                     token |-> "", id |-> 0, row |-> <<>>, live |-> TRUE]]

\* The requests the clients send at the same time.
ThreadRequests ==
    {Request("register", NoHeader, Body(e, "pw1")) : e \in Emails}
        \cup {Request(op, Bearer(Tok(1)), NoArg) : op \in {"me", "logout"}}
        \cup {Request(op, Bearer(Tok(2)), NoArg) : op \in {"admin_me", "admin_logout"}}
        \cup {Request("toggle_favorite", Bearer(Tok(1)), 1),
              Request("me", Hdr(<<"Bearer">>), NoArg)}

\* An exception no except clause catches: the server answers 500 with an
\* error page, not with a JSON body of the application.
Unhandled(exc) ==
    [status |-> 500, body |-> [page |-> "Internal Server Error", exception |-> exc]]

\* str(e) of the exceptions the handlers catch.
KeyError(key) == "'" \o key \o "'"
IntegrityError == "UNIQUE constraint failed: user.email"
StaleDataError == "UPDATE statement on table 'prediction' expected to update 1 row(s)"

Goto(t, pc) == threads' = [threads EXCEPT ![t].pc = pc]
Finish(t, r) == threads' = [threads EXCEPT ![t].pc = "done", ![t].resp = r]
At(t, ops, pc) == threads[t].pc = pc /\ threads[t].req.op \in ops

accept(t, r) ==
    /\ threads[t].pc = "accept"
    /\ threads' = [threads EXCEPT ![t].req = r,
                                  ![t].pc = IF r.op = "register" THEN "query" ELSE "guard"]
    /\ UNCHANGED <<state, req, resp>>

\* token_required / admin_required up to the membership test.
guard_check(t) ==
    /\ At(t, GuardedOps, "guard")
    /\ LET auth == threads[t].req.auth
           g == IF threads[t].req.op \in UserOps THEN token_required(auth)
                ELSE admin_required(auth)
       IN  IF ~g.admitted THEN Finish(t, g.resp)
           ELSE threads' = [threads EXCEPT ![t].token = split(auth.value)[2],
                                           ![t].pc = "lookup"]
    /\ UNCHANGED <<state, req, resp>>

\* A variant of the lookup that waits until the registry holds the token.
guard_lookup_waiting(t) ==
    /\ At(t, GuardedOps, "lookup")
    /\ threads[t].token \in DOMAIN RegistryOf(threads[t].req.op)
    /\ threads' = [threads EXCEPT ![t].id = RegistryOf(threads[t].req.op)[threads[t].token],
                                  ![t].pc = "query"]
    /\ UNCHANGED <<state, req, resp>>

\* current_user_id = active_tokens[token], outside every try.
guard_lookup(t) ==
    /\ At(t, GuardedOps, "lookup")
    /\ LET registry == RegistryOf(threads[t].req.op)
           token == threads[t].token
       IN  IF token \notin DOMAIN registry THEN Finish(t, Unhandled(KeyError(token)))
           ELSE threads' = [threads EXCEPT ![t].id = registry[token], ![t].pc = "query"]
    /\ UNCHANGED <<state, req, resp>>

\* The User table refuses a second row with a stored email (unique column).
unique_constraint_absent(email) == FALSE
unique_constraint_fails(email) == first_by_email(users, email) # 0

\* register up to the existence check, and from there to the commit.
register_query(t) ==
    /\ At(t, {"register"}, "query")
    /\ LET data == threads[t].req.arg
       IN  IF data.email = Missing \/ data.password = Missing
           THEN Finish(t, Error("Email and password required", 400))
           ELSE IF email_registered(data.email)
           THEN Finish(t, Error("Email already registered", 400))
           ELSE Goto(t, "commit")
    /\ UNCHANGED <<state, req, resp>>

register_commit(t) ==
    /\ At(t, {"register"}, "commit")
    /\ LET data == threads[t].req.arg
       IN  IF unique_constraint_fails(data.email)
           THEN /\ Finish(t, Error(IntegrityError, 400))
                /\ UNCHANGED <<users, writes>>
           ELSE /\ users' = Put(users, NewId(users),
                                [email |-> data.email,
                                 password |-> generate_password_hash(data.password),
                                 is_blocked |-> FALSE])
                /\ writes' = writes + 1
                /\ Finish(t, Json([message |-> "User registered successfully"], 200))
    /\ UNCHANGED <<admins, predictions, registries, ghosts, req, resp>>

get_current_user_body(t) ==
    /\ At(t, {"me"}, "query")
    /\ LET id == threads[t].id
       IN  Finish(t, IF id \notin DOMAIN users THEN Error("User not found", 404)
                     ELSE Json([id |-> id, email |-> users[id].email], 200))
    /\ UNCHANGED <<state, req, resp>>

get_current_admin_body(t) ==
    /\ At(t, {"admin_me"}, "query")
    /\ LET id == threads[t].id
       IN  Finish(t, IF id \notin DOMAIN admins THEN Error("Admin not found", 404)
                     ELSE Json([id |-> id, email |-> admins[id].email,
                                role |-> admins[id].role], 200))
    /\ UNCHANGED <<state, req, resp>>

\* logout: `if token in active_tokens`, then `del active_tokens[token]`, in a
\* try whose except answers 400 with str(e).
logout_check(t) ==
    /\ At(t, {"logout"}, "query")
    /\ LET token == split(threads[t].req.auth.value)[2]
       IN  IF token \in DOMAIN active_tokens THEN Goto(t, "commit")
           ELSE Finish(t, Json([message |-> "Logged out successfully"], 200))
    /\ UNCHANGED <<state, req, resp>>

logout_del(t) ==
    /\ At(t, {"logout"}, "commit")
    /\ LET token == split(threads[t].req.auth.value)[2]
       IN  IF token \notin DOMAIN active_tokens
           THEN /\ Finish(t, Error(KeyError(token), 400))
                /\ UNCHANGED <<active_tokens, revoked, writes>>
           ELSE /\ active_tokens' = del_active_token(token)
                /\ revoked' = revoked \cup {token}
                /\ writes' = writes + 1
                /\ Finish(t, Json([message |-> "Logged out successfully"], 200))
    /\ UNCHANGED <<tables, admin_tokens, issued, req, resp>>

admin_logout_check(t) ==
    /\ At(t, {"admin_logout"}, "query")
    /\ LET token == split(threads[t].req.auth.value)[2]
       IN  IF token \in DOMAIN admin_tokens THEN Goto(t, "commit")
           ELSE Finish(t, Json([message |-> "Admin logged out successfully"], 200))
    /\ UNCHANGED <<state, req, resp>>

admin_logout_del(t) ==
    /\ At(t, {"admin_logout"}, "commit")
    /\ LET token == split(threads[t].req.auth.value)[2]
       IN  IF token \notin DOMAIN admin_tokens
           THEN /\ Finish(t, Error(KeyError(token), 400))
                /\ UNCHANGED <<admin_tokens, revoked, writes>>
           ELSE /\ admin_tokens' = del_admin_token(token)
                /\ revoked' = revoked \cup {token}
                /\ writes' = writes + 1
                /\ Finish(t, Json([message |-> "Admin logged out successfully"], 200))
    /\ UNCHANGED <<tables, active_tokens, issued, req, resp>>

\* toggle_favorite: the query loads the row into the session of the request;
\* the commit writes the negation of the loaded flag to the row.
toggle_favorite_query(t) ==
    /\ At(t, {"toggle_favorite"}, "query")
    /\ LET id == threads[t].req.arg
       IN  IF ~owned(id, threads[t].id)
           THEN Finish(t, Error("Prediction not found", 404))
           ELSE threads' = [threads EXCEPT ![t].row = predictions[id], ![t].pc = "commit"]
    /\ UNCHANGED <<state, req, resp>>

toggle_favorite_commit(t) ==
    /\ At(t, {"toggle_favorite"}, "commit")
    /\ LET id == threads[t].req.arg
           favorite == flip(threads[t].row.favorite)
       IN  IF id \notin DOMAIN predictions
           THEN /\ Finish(t, Error(StaleDataError, 400))
                /\ UNCHANGED <<predictions, writes>>
           ELSE /\ predictions' = [predictions EXCEPT ![id].favorite = favorite]
                /\ writes' = writes + 1
                /\ Finish(t, Json([message |-> "favorite toggled",
                                   favorite |-> favorite], 200))
    /\ UNCHANGED <<users, admins, registries, ghosts, req, resp>>

NextThreads ==
    \/ \E t \in Threads, r \in ThreadRequests : accept(t, r)
    \/ \E t \in Threads : guard_check(t)
    \/ \E t \in Threads : guard_lookup(t)
    \/ \E t \in Threads : register_query(t)
    \/ \E t \in Threads : register_commit(t)
    \/ \E t \in Threads : get_current_user_body(t)
    \/ \E t \in Threads : get_current_admin_body(t)
    \/ \E t \in Threads : logout_check(t)
    \/ \E t \in Threads : logout_del(t)
    \/ \E t \in Threads : admin_logout_check(t)
    \/ \E t \in Threads : admin_logout_del(t)
    \/ \E t \in Threads : toggle_favorite_query(t)
    \/ \E t \in Threads : toggle_favorite_commit(t)

SpecThreads == ThreadStart /\ [][NextThreads]_vars

\* ------------------------------------------------------------- logout during a request
\* The handlers of /predict and DELETE /history/{id} as steps of a thread.
\* live records whether the token of the request was registered when the
\* step ran.
Registered(t) == threads[t].token \in DOMAIN active_tokens

\* A variant of predict that looks the token up again.
predict_body_revalidating(t) ==
    /\ At(t, {"predict"}, "query")
    /\ LET data == threads[t].req.arg
           result == predict_checked(translate(data))
           price == round2(result.value)
       IN  IF ~Registered(t)
           THEN /\ Finish(t, Error("Invalid or expired token", 401))
                /\ UNCHANGED <<predictions, writes>>
           ELSE IF ~result.ok
           THEN /\ Finish(t, Error(result.error, 400))
                /\ UNCHANGED <<predictions, writes>>
           ELSE /\ predictions' = Put(predictions, NewId(predictions),
                                      [user_id |-> threads[t].id,
                                       input_data |-> json_dumps(data),
                                       price |-> price, favorite |-> FALSE,
                                       created_at |-> utcnow])
                /\ writes' = writes + 1
                /\ threads' = [threads EXCEPT
                                  ![t].pc = "done", ![t].live = Registered(t),
                                  ![t].resp = Json([predicted_price |-> price,
                                                    prediction_id |-> NewId(predictions)],
                                                   200)]
    /\ UNCHANGED <<users, admins, registries, ghosts, req, resp>>

\* predict: translation, inference, add and commit under current_user_id.
predict_body(t) ==
    /\ At(t, {"predict"}, "query")
    /\ LET data == threads[t].req.arg
           result == predict_checked(translate(data))
           price == round2(result.value)
       IN  IF ~result.ok
           THEN /\ Finish(t, Error(result.error, 400))
                /\ UNCHANGED <<predictions, writes>>
           ELSE /\ predictions' = Put(predictions, NewId(predictions),
                                      [user_id |-> threads[t].id,
                                       input_data |-> json_dumps(data),
                                       price |-> price, favorite |-> FALSE,
                                       created_at |-> utcnow])
                /\ writes' = writes + 1
                /\ threads' = [threads EXCEPT
                                  ![t].pc = "done", ![t].live = Registered(t),
                                  ![t].resp = Json([predicted_price |-> price,
                                                    prediction_id |-> NewId(predictions)],
                                                   200)]
    /\ UNCHANGED <<users, admins, registries, ghosts, req, resp>>

\* delete_history: the query by id and current_user_id, then delete and commit.
delete_history_query(t) ==
    /\ At(t, {"delete_history"}, "query")
    /\ LET id == threads[t].req.arg
       IN  IF ~owned(id, threads[t].id)
           THEN Finish(t, Error("Prediction not found", 404))
           ELSE threads' = [threads EXCEPT ![t].row = predictions[id], ![t].pc = "commit"]
    /\ UNCHANGED <<state, req, resp>>

\* A DELETE that matches no row is reported as a warning, and the commit succeeds.
delete_history_commit(t) ==
    /\ At(t, {"delete_history"}, "commit")
    /\ LET id == threads[t].req.arg
       IN  /\ predictions' = Del(predictions, id)
           /\ writes' = writes + 1
           /\ threads' = [threads EXCEPT ![t].pc = "done", ![t].live = Registered(t),
                                         ![t].resp = Json([message |-> "deleted"], 200)]
    /\ UNCHANGED <<users, admins, registries, ghosts, req, resp>>

\* The requests of user 1 that meet a logout of the same token.
RevokeRequests ==
    {Request("predict", Bearer(Tok(1)), d) : d \in Payloads}
        \cup {Request(op, Bearer(Tok(1)), 1) : op \in {"delete_history", "toggle_favorite"}}
        \cup {Request("logout", Bearer(Tok(1)), NoArg)}

NextRevoke ==
    \/ \E t \in Threads, r \in RevokeRequests : accept(t, r)
    \/ \E t \in Threads : guard_check(t)
    \/ \E t \in Threads : guard_lookup(t)
    \/ \E t \in Threads : logout_check(t)
    \/ \E t \in Threads : logout_del(t)
    \/ \E t \in Threads : predict_body(t)
    \/ \E t \in Threads : delete_history_query(t)
    \/ \E t \in Threads : delete_history_commit(t)
    \/ \E t \in Threads : toggle_favorite_query(t)
    \/ \E t \in Threads : toggle_favorite_commit(t)

SpecRevoke == ThreadStart /\ [][NextRevoke]_vars

\* ------------------------------------------------------------- scheduling
\* The next step of the request a thread serves. The server keeps running
\* its threads: as long as some thread can take a step, a step is taken.
handle(t) ==
    \/ guard_check(t)
    \/ guard_lookup(t)
    \/ register_query(t)
    \/ register_commit(t)
    \/ get_current_user_body(t)
    \/ get_current_admin_body(t)
    \/ logout_check(t)
    \/ logout_del(t)
    \/ admin_logout_check(t)
    \/ admin_logout_del(t)
    \/ predict_body(t)
    \/ delete_history_query(t)
    \/ delete_history_commit(t)
    \/ toggle_favorite_query(t)
    \/ toggle_favorite_commit(t)

\* One request to every handler that runs in steps, all of them of user 1
\* and of the admin.
ServeRequests ==
    {Request("register", NoHeader, Body("A@x.com", "pw1")),
     Request("predict", Bearer(Tok(1)), ExamplePayload),
     Request("delete_history", Bearer(Tok(1)), 1),
     Request("toggle_favorite", Bearer(Tok(1)), 1)}
        \cup {Request(op, Bearer(Tok(1)), NoArg) : op \in {"me", "logout"}}
        \cup {Request(op, Bearer(Tok(2)), NoArg) : op \in {"admin_me", "admin_logout"}}

NextServe ==
    \/ \E t \in Threads, r \in ServeRequests : accept(t, r)
    \/ \E t \in Threads : handle(t)

SpecServe == ThreadStart /\ [][NextServe]_vars /\ WF_vars(\E t \in Threads : handle(t))

\* ------------------------------------------------------------- properties

\* The token a request carries: the second space-separated segment of its
\* Authorization header ("" when there is none).
Segments(auth) == split(auth.value)
Carried(auth) ==
    IF auth.present /\ Len(Segments(auth)) >= 2 THEN Segments(auth)[2] ELSE ""

\* The rows of a table that an email and a password log in as.
Verified(table, email, password) ==
    {i \in DOMAIN table : /\ table[i].email = email
                          /\ table[i].password = generate_password_hash(password)}

\* A login step on a table and its registry (before, after), the other
\* registry (before, after), the token and the id the response returns.
LoginStep(table, email, password, status, body, id, reg, reg2, other, other2) ==
    IF Verified(table, email, password) # {}
    THEN /\ status = 200
         /\ body.token \notin DOMAIN reg
         /\ DOMAIN reg2 = DOMAIN reg \cup {body.token}
         /\ reg2[body.token] \in Verified(table, email, password)
         /\ reg2[body.token] = id
         /\ \A t \in DOMAIN reg : reg2[t] = reg[t]
         /\ other2 = other
    ELSE /\ status # 200
         /\ reg2 = reg
         /\ other2 = other

\* C1: POST /login and POST /admin/login insert a new token into their
\* registry if and only if the email names a record whose stored hash the
\* password verifies against; the token returned maps to the id of that
\* record; a failed login leaves both registries as they were.
C1_LoginIssuesTokenIffVerified ==
    [][/\ req'.op = "login" =>
            LoginStep(users, req'.arg.email, req'.arg.password, resp'.status, resp'.body,
                      IF resp'.status = 200 THEN resp'.body.user.id ELSE 0,
                      active_tokens, active_tokens', admin_tokens, admin_tokens')
       /\ req'.op = "admin_login" =>
            LoginStep(admins, req'.arg.email, req'.arg.password, resp'.status, resp'.body,
                      IF resp'.status = 200 THEN resp'.body.admin.id ELSE 0,
                      admin_tokens, admin_tokens', active_tokens, active_tokens')]_vars

\* A user has logged in: the token returned maps to the user's id.
C1_Witness ==
    /\ req.op = "login"
    /\ resp.status = 200
    /\ active_tokens[resp.body.token] = resp.body.user.id
    /\ users[resp.body.user.id].email = req.arg.email

\* The request carries a token that POST /login (registry "user") or
\* POST /admin/login (registry "admin") issued.
IssuedBy(auth, registry) ==
    Carried(auth) \in DOMAIN issued /\ issued[Carried(auth)].registry = registry

\* C2: a GET /history, DELETE /history/{id} or PUT /history/{id}/favorite
\* request carrying a token issued to user A never returns, deletes or
\* changes a prediction whose user_id is another user's.
C2_NoAccessToForeignPredictions ==
    [][(req'.op \in {"history", "delete_history", "toggle_favorite"}
            /\ IssuedBy(req'.auth, "user")) =>
          \A i \in DOMAIN predictions :
              predictions[i].user_id # issued[Carried(req'.auth)].principal =>
                  /\ i \in DOMAIN predictions'
                  /\ predictions'[i] = predictions[i]
                  /\ (req'.op = "history" /\ resp'.status = 200) =>
                        \A k \in DOMAIN resp'.body : resp'.body[k].id # i]_vars

\* User A, holding a valid token, has asked for the history while another
\* user's prediction is stored, and got a list without it.
C2_Witness ==
    /\ req.op = "history"
    /\ resp.status = 200
    /\ Carried(req.auth) \in DOMAIN active_tokens
    /\ \E i \in DOMAIN predictions :
          /\ predictions[i].user_id # active_tokens[Carried(req.auth)]
          /\ predictions[i].user_id \in DOMAIN users
          /\ \A k \in DOMAIN resp.body : resp.body[k].id # i

\* C3: for a caller A, DELETE /history/{id} and PUT /history/{id}/favorite
\* answer an id owned by another user exactly as they answer an id that does
\* not exist: 404 'Prediction not found', and nothing changes.
C3_ForeignAnsweredAsAbsent ==
    [][(req'.op \in {"delete_history", "toggle_favorite"}
            /\ Carried(req'.auth) \in DOMAIN active_tokens
            /\ (req'.arg \notin DOMAIN predictions
                   \/ predictions[req'.arg].user_id # active_tokens[Carried(req'.auth)])) =>
          /\ resp' = Error("Prediction not found", 404)
          /\ UNCHANGED state]_vars

\* User A has tried to toggle the favorite flag of another user's prediction.
C3_Witness ==
    /\ req.op = "toggle_favorite"
    /\ resp = Error("Prediction not found", 404)
    /\ Carried(req.auth) \in DOMAIN active_tokens
    /\ req.arg \in DOMAIN predictions
    /\ predictions[req.arg].user_id # active_tokens[Carried(req.auth)]

\* C4: a token issued by POST /login is never accepted by an endpoint behind
\* admin_required, a token issued by POST /admin/login never by one behind
\* token_required; login and logout never change admin_tokens, admin login
\* and admin logout never change active_tokens.
C4_NamespacesNeverCross ==
    [][/\ (req'.op \in AdminOps /\ IssuedBy(req'.auth, "user")) =>
              resp' = Error("Invalid or expired admin token", 401) /\ UNCHANGED state
       /\ (req'.op \in UserOps /\ IssuedBy(req'.auth, "admin")) =>
              resp' = Error("Invalid or expired token", 401) /\ UNCHANGED state
       /\ req'.op \in {"login", "logout"} => admin_tokens' = admin_tokens
       /\ req'.op \in {"admin_login", "admin_logout"} => active_tokens' = active_tokens]_vars

\* A valid user token was presented to an admin endpoint while an admin is
\* logged in.
C4_Witness ==
    /\ req.op \in AdminOps
    /\ Carried(req.auth) \in DOMAIN active_tokens
    /\ admin_tokens # EmptyMap
    /\ resp.status = 401

\* C5: a successful logout with token t removes only t: every other token of
\* either registry is still there afterwards, and maps to the same id.
C5_LogoutRemovesOnlyItsToken ==
    [][(req'.op \in {"logout", "admin_logout"} /\ resp'.status = 200) =>
          /\ \A t \in DOMAIN active_tokens \ {Carried(req'.auth)} :
                t \in DOMAIN active_tokens' /\ active_tokens'[t] = active_tokens[t]
          /\ \A t \in DOMAIN admin_tokens \ {Carried(req'.auth)} :
                t \in DOMAIN admin_tokens' /\ admin_tokens'[t] = admin_tokens[t]
          /\ DOMAIN active_tokens' \subseteq DOMAIN active_tokens
          /\ DOMAIN admin_tokens' \subseteq DOMAIN admin_tokens]_vars

\* A user has logged out with one token while holding another one.
C5_Witness ==
    /\ req.op = "logout"
    /\ resp.status = 200
    /\ \E t \in DOMAIN active_tokens :
          active_tokens[t] = issued[Carried(req.auth)].principal

InvalidOrExpired ==
    {Error("Invalid or expired token", 401), Error("Invalid or expired admin token", 401)}

\* C6: once a logout has succeeded with token t, t is in no registry again
\* (a later login issues another token), and every guarded request carrying t
\* is rejected with 401 as an invalid or expired token.
C6_RevokedTokenStaysRejected ==
    [][/\ \A t \in revoked' : t \notin DOMAIN active_tokens' \cup DOMAIN admin_tokens'
       /\ (req'.op \in GuardedOps /\ Carried(req'.auth) \in revoked) =>
              resp' \in InvalidOrExpired /\ UNCHANGED state]_vars

\* A request came with a token that was logged out, after its user had
\* logged in again.
C6_Witness ==
    /\ req.op \in UserOps
    /\ Carried(req.auth) \in revoked
    /\ resp.status = 401
    /\ \E t \in DOMAIN active_tokens :
          active_tokens[t] = issued[Carried(req.auth)].principal

\* The guard has to reject: no header, no second segment, or a token that is
\* no key of the registry.
MustReject(auth, registry) ==
    \/ ~auth.present
    \/ Len(Segments(auth)) < 2
    \/ Segments(auth)[2] \notin DOMAIN registry

\* C7: a guarded request that the guard rejects returns 401 and leaves the
\* tables and both registries as they were.
C7_RejectionChangesNothing ==
    [][/\ (req'.op \in UserOps /\ MustReject(req'.auth, active_tokens)) =>
              resp'.status = 401 /\ UNCHANGED state
       /\ (req'.op \in AdminOps /\ MustReject(req'.auth, admin_tokens)) =>
              resp'.status = 401 /\ UNCHANGED state]_vars

\* POST /predict with an unknown token was rejected while a user is logged in.
C7_Witness ==
    /\ req.op = "predict"
    /\ resp = Error("Invalid or expired token", 401)
    /\ active_tokens # EmptyMap

\* C10: POST /register with the email of an existing user answers 400 and
\* changes no table and no registry.
C10_DuplicateEmailRejected ==
    [][(req'.op = "register" /\ \E u \in DOMAIN users : users[u].email = req'.arg.email) =>
          /\ resp'.status = 400
          /\ UNCHANGED <<tables, registries>>]_vars

\* A registration with a registered email was refused, while the same
\* address in another case is registered as well.
C10_Witness ==
    /\ req.op = "register"
    /\ resp = Error("Email already registered", 400)
    /\ \E u, v \in DOMAIN users : u # v

\* The message of a guarded endpoint for a token that is no key of its registry.
UnknownToken(op) ==
    IF op \in UserOps THEN Error("Invalid or expired token", 401)
    ELSE Error("Invalid or expired admin token", 401)

\* C8: a guarded request is admitted only with a header of the form
\* Bearer <token>: a header whose first space-separated segment is not
\* "Bearer" is rejected with 401, even when its second segment is a token of
\* the registry.
C8_OnlyBearerAdmitted ==
    (req.op \in GuardedOps /\ req.auth.present /\ Segments(req.auth)[1] # "Bearer") =>
        resp.status = 401

\* C9: no Authorization header is rejected as 'Token is missing', a header
\* without a second space-separated segment as 'Invalid token format', a
\* token that is no key of the registry as invalid or expired; all with 401.
C9_RejectionsAsListed ==
    [][req'.op \in GuardedOps =>
          /\ ~req'.auth.present => resp' = Error("Token is missing", 401)
          /\ (req'.auth.present /\ Len(Segments(req'.auth)) < 2) =>
                resp' = Error("Invalid token format", 401)
          /\ (req'.auth.present /\ Len(Segments(req'.auth)) >= 2
                 /\ Segments(req'.auth)[2] \notin DOMAIN RegistryOf(req'.op)) =>
                resp' = UnknownToken(req'.op)]_vars

\* C9 as the code has it: a header whose second segment is empty is rejected
\* as 'Token is missing' too, and it is a token that is not empty and no key
\* of the registry that is rejected as invalid or expired.
C9_RejectionsAsCoded ==
    [][req'.op \in GuardedOps =>
          /\ ~req'.auth.present => resp' = Error("Token is missing", 401)
          /\ (req'.auth.present /\ Len(Segments(req'.auth)) < 2) =>
                resp' = Error("Invalid token format", 401)
          /\ (req'.auth.present /\ Len(Segments(req'.auth)) >= 2
                 /\ Segments(req'.auth)[2] = "") =>
                resp' = Error("Token is missing", 401)
          /\ (req'.auth.present /\ Len(Segments(req'.auth)) >= 2
                 /\ Segments(req'.auth)[2] # ""
                 /\ Segments(req'.auth)[2] \notin DOMAIN RegistryOf(req'.op)) =>
                resp' = UnknownToken(req'.op)]_vars

\* A header with two spaces between the scheme word and a valid token was
\* rejected as a missing token.
C9_Witness ==
    /\ req.op = "me"
    /\ req.auth = Hdr(<<"Bearer", SP, SP, Tok(1)>>)
    /\ Tok(1) \in DOMAIN active_tokens
    /\ resp = Error("Token is missing", 401)

\* ------------------------------------------------------------- predictions and accounts
\* C13: a successful PUT /history/{id}/favorite on a prediction of the caller
\* stores the negation of the stored boolean, so that two of them in a row
\* restore it, and its response reports the value stored after the toggle.
C13_ToggleFlipsAndReports ==
    [][(req'.op = "toggle_favorite" /\ resp'.status = 200) =>
          /\ predictions[req'.arg].favorite \in BOOLEAN
          /\ predictions'[req'.arg].favorite = ~predictions[req'.arg].favorite
          /\ resp'.body.favorite = predictions'[req'.arg].favorite
          /\ \A i \in DOMAIN predictions \ {req'.arg} :
                i \in DOMAIN predictions' /\ predictions'[i] = predictions[i]]_vars

\* The second toggle of a prediction: it answered that the flag is false again.
C13_Witness ==
    /\ req.op = "toggle_favorite"
    /\ resp.status = 200
    /\ resp.body.favorite = FALSE
    /\ predictions[req.arg].favorite = FALSE

\* C14: every Prediction record POST /predict creates has the id of a User
\* record stored at that moment as its user_id, also after an admin deleted
\* a user whose token is still valid.
C14_PredictionOwnerExists ==
    [][\A i \in DOMAIN predictions' \ DOMAIN predictions :
          predictions'[i].user_id \in DOMAIN users']_vars

\* C17: DELETE /admin/users/{id} removes the User record only: the
\* predictions of that user stay stored, and GET /admin/predictions lists
\* every stored prediction, those without a user with user_email "Unknown".
C17_DeleteUserLeavesPredictions ==
    [][/\ (req'.op = "admin_delete_user" /\ resp'.status = 200) =>
             /\ users' = Del(users, req'.arg)
             /\ predictions' = predictions
       /\ (req'.op = "admin_predictions" /\ resp'.status = 200) =>
             \A i \in DOMAIN predictions :
                 \E k \in DOMAIN resp'.body :
                     /\ resp'.body[k].id = i
                     /\ resp'.body[k].user_id = predictions[i].user_id
                     /\ predictions[i].user_id \notin DOMAIN users
                            => resp'.body[k].user_email = "Unknown"]_vars

\* The admin listing shows a prediction of a deleted user.
C17_Witness ==
    /\ req.op = "admin_predictions"
    /\ resp.status = 200
    /\ \E k \in DOMAIN resp.body :
          /\ resp.body[k].user_email = "Unknown"
          /\ resp.body[k].user_id \notin DOMAIN users
          /\ resp.body[k].id \in DOMAIN predictions

\* C18: is_blocked is stored and not enforced: a blocked user logs in with
\* the right credentials, and a guarded user request carrying the token of a
\* blocked user is answered as the same request of a user who is not blocked.
Blocked(u) == u \in DOMAIN users /\ users[u].is_blocked
C18_BlockedUserIsServed ==
    [][/\ (req'.op = "login"
              /\ \E u \in Verified(users, req'.arg.email, req'.arg.password) : Blocked(u)) =>
             /\ resp'.status = 200
             /\ resp'.body.token \in DOMAIN active_tokens' \ DOMAIN active_tokens
       /\ (req'.op \in UserOps
              /\ Carried(req'.auth) \in DOMAIN active_tokens
              /\ Blocked(active_tokens[Carried(req'.auth)])) =>
             LET u == active_tokens[Carried(req'.auth)]
             IN  /\ req'.op \in {"me", "history"} => resp'.status = 200
                 /\ req'.op = "logout" =>
                       resp'.status = 200 /\ Carried(req'.auth) \notin DOMAIN active_tokens'
                 /\ req'.op = "predict" =>
                       resp'.status = (IF translate(req'.arg).ok THEN 200 ELSE 400)
                 /\ req'.op \in {"delete_history", "toggle_favorite"} =>
                       resp'.status = (IF owned(req'.arg, u) THEN 200 ELSE 404)]_vars

\* A blocked user's prediction request was served and stored.
C18_Witness ==
    /\ req.op = "predict"
    /\ resp.status = 200
    /\ Carried(req.auth) \in DOMAIN active_tokens
    /\ Blocked(active_tokens[Carried(req.auth)])
    /\ predictions[resp.body.prediction_id].user_id = active_tokens[Carried(req.auth)]

PredictAddsOne(Stored(_, _)) ==
    (req'.op = "predict" /\ resp'.status = 200) =>
        /\ Cardinality(DOMAIN predictions' \ DOMAIN predictions) = 1
        /\ resp'.body.prediction_id \in DOMAIN predictions' \ DOMAIN predictions
        /\ LET new == predictions'[resp'.body.prediction_id]
           IN  /\ new.user_id = active_tokens[Carried(req'.auth)]
               /\ json_loads(new.input_data) = req'.arg
               /\ Stored(model_predict(translate(req'.arg).value), new.price)
               /\ new.favorite = FALSE
        /\ \A i \in DOMAIN predictions :
              i \in DOMAIN predictions' /\ predictions'[i] = predictions[i]
Exact(result, price) == price = result
Hundredth(result, price) ==
    price % 10 = 0 /\ price - result <= 5 /\ result - price <= 5

\* C16: a successful POST /predict with a token of user u adds exactly one
\* Prediction record with user_id u, the submitted payload, the model's
\* result as price and favorite false, returns its id, and adds, changes
\* or removes no other Prediction record.
C16_PredictStoresModelResult == [][PredictAddsOne(Exact)]_vars

\* C16 as the code has it: the price stored is the model's result rounded to
\* two decimals, a multiple of a hundredth at most half a hundredth away.
C16_PredictStoresRoundedResult == [][PredictAddsOne(Hundredth)]_vars

\* A second prediction was stored, with a price that is the rounded and not
\* the exact result of the model.
C16_Witness ==
    /\ req.op = "predict"
    /\ resp.status = 200
    /\ Cardinality(DOMAIN predictions) = 2
    /\ predictions[resp.body.prediction_id].price
          # model_predict(translate(req.arg).value)
    /\ resp.body.predicted_price = predictions[resp.body.prediction_id].price

\* ------------------------------------------------------------- sessions, history, frames
\* C21: each registry maps a token to one principal id; a login removes and
\* remaps no entry; every token a principal got from a login and did not log
\* out resolves to that principal, so k logins give k tokens valid together.
C21_LoginsAccumulate ==
    [][/\ req'.op \in {"login", "admin_login"} =>
             /\ \A t \in DOMAIN active_tokens :
                   t \in DOMAIN active_tokens' /\ active_tokens'[t] = active_tokens[t]
             /\ \A t \in DOMAIN admin_tokens :
                   t \in DOMAIN admin_tokens' /\ admin_tokens'[t] = admin_tokens[t]
       /\ \A t \in DOMAIN issued' \ revoked' :
             LET registry == IF issued'[t].registry = "user" THEN active_tokens'
                             ELSE admin_tokens'
             IN  t \in DOMAIN registry /\ registry[t] = issued'[t].principal]_vars

\* A user holds two tokens at once.
C21_Witness ==
    /\ req.op = "login"
    /\ resp.status = 200
    /\ \E s, t \in DOMAIN active_tokens :
          s # t /\ active_tokens[s] = active_tokens[t] /\ t = resp.body.token

\* C23: GET /history of a caller resolved to user u returns the Prediction
\* records whose user_id is u, all of them once and no other, the newest
\* (by created_at) first.
C23_HistoryIsOwnNewestFirst ==
    [][(req'.op = "history" /\ resp'.status = 200) =>
          LET u == active_tokens[Carried(req'.auth)]
              rows == resp'.body
          IN  /\ {rows[k].id : k \in DOMAIN rows}
                    = {i \in DOMAIN predictions : predictions[i].user_id = u}
              /\ \A k, l \in DOMAIN rows :
                    /\ k # l => rows[k].id # rows[l].id
                    /\ k < l => rows[k].created_at >= rows[l].created_at
              /\ \A k \in DOMAIN rows :
                    /\ rows[k].created_at = predictions[rows[k].id].created_at
                    /\ rows[k].price = predictions[rows[k].id].price
                    /\ rows[k].favorite = predictions[rows[k].id].favorite
                    /\ rows[k].input = json_loads(predictions[rows[k].id].input_data)]_vars

\* A history of two predictions, the later one first.
C23_Witness ==
    /\ req.op = "history"
    /\ resp.status = 200
    /\ Len(resp.body) = 2
    /\ resp.body[1].created_at > resp.body[2].created_at

\* C27: a stored Prediction keeps its user_id, input_data and price; its
\* favorite flag changes only in a successful PUT /history/{id}/favorite of a
\* caller resolved to its user_id; it is removed only by DELETE /history/{id}
\* of that owner or DELETE /admin/predictions/{id} of an admin. No other
\* request changes or removes a Prediction.
C27_PredictionFrame ==
    [][\A i \in DOMAIN predictions :
          LET caller == IF Carried(req'.auth) \in DOMAIN active_tokens
                        THEN active_tokens[Carried(req'.auth)] ELSE 0
              mine == req'.arg = i /\ resp'.status = 200
                         /\ caller = predictions[i].user_id
          IN  IF i \in DOMAIN predictions'
              THEN /\ predictions'[i].user_id = predictions[i].user_id
                   /\ predictions'[i].input_data = predictions[i].input_data
                   /\ predictions'[i].price = predictions[i].price
                   /\ predictions'[i].created_at = predictions[i].created_at
                   /\ predictions'[i].favorite # predictions[i].favorite =>
                         (req'.op = "toggle_favorite" /\ mine)
              ELSE \/ req'.op = "delete_history" /\ mine
                   \/ /\ req'.op = "admin_delete_prediction"
                      /\ req'.arg = i /\ resp'.status = 200
                      /\ Carried(req'.auth) \in DOMAIN admin_tokens]_vars

\* An admin blocked a user who has a prediction stored: it is still there.
C27_Witness ==
    /\ req.op = "admin_block_user"
    /\ resp.status = 200
    /\ \E i \in DOMAIN predictions : predictions[i].user_id = req.arg

\* C29: PUT /admin/users/{id}/block negates is_blocked of the addressed user
\* and returns the new value; the other users, the other fields, the
\* predictions and both registries stay as they were; two in a row restore
\* the flag; for an id that is no user it answers 404 and changes nothing.
C29_BlockToggleFrame ==
    [][(req'.op = "admin_block_user" /\ Carried(req'.auth) \in DOMAIN admin_tokens) =>
          IF req'.arg \in DOMAIN users
          THEN /\ resp'.status = 200
               /\ users' = [users EXCEPT ![req'.arg].is_blocked = ~users[req'.arg].is_blocked]
               /\ resp'.body.is_blocked = users'[req'.arg].is_blocked
               /\ UNCHANGED <<admins, predictions, registries>>
          ELSE /\ resp'.status = 404
               /\ UNCHANGED <<tables, registries>>]_vars

\* The second toggle of a user: the answer is that the user is not blocked.
C29_Witness ==
    /\ req.op = "admin_block_user"
    /\ resp.status = 200
    /\ resp.body.is_blocked = FALSE
    /\ users[req.arg].is_blocked = FALSE

\* C30: create_admin.py run while an Admin with the configured email exists
\* adds and changes no record; after any number of runs there is one Admin
\* with that email, the one the first run created.
Provisioned(table) == {a \in DOMAIN table : table[a].email = ADMIN_EMAIL}
C30_ProvisioningIsIdempotent ==
    [][/\ (req'.op = "create_admin" /\ Provisioned(admins) # {}) =>
             UNCHANGED <<tables, registries>>
       /\ req'.op = "create_admin" => Cardinality(Provisioned(admins')) = 1
       /\ Cardinality(Provisioned(admins')) <= 1]_vars

\* The script ran again and found its admin.
C30_Witness ==
    /\ req.op = "create_admin"
    /\ resp = Json([message |-> "Admin already exists"], 0)
    /\ Cardinality(Provisioned(admins)) = 1

\* C22: a restart of the process empties both registries and changes no
\* User, Admin or Prediction record; every token issued before it is
\* rejected with 401 on every guarded request after it.
C22_RestartLosesTokensOnly ==
    [][/\ req'.op = "restart" =>
             /\ active_tokens' = EmptyMap
             /\ admin_tokens' = EmptyMap
             /\ UNCHANGED tables
             /\ DOMAIN issued \subseteq revoked'
       /\ (req'.op \in GuardedOps /\ Carried(req'.auth) \in revoked) =>
             /\ resp'.status = 401
             /\ UNCHANGED <<tables, registries>>]_vars

\* After a restart the user logged in again: the token of the first login
\* is refused while the new one is registered and the user is stored.
C22_Witness ==
    /\ req.op \in {"me", "history"}
    /\ Carried(req.auth) \in revoked
    /\ resp.status = 401
    /\ active_tokens # EmptyMap
    /\ users # EmptyMap

\* C24: a POST /predict whose furnishingstatus is none of the categories the
\* encoder was fit on is answered 400 and stores nothing; the API never puts
\* a default category in its place, while the batch script takes the
\* encoder's first class for such a value.
Unseen(x) == \A i \in 1..Len(FurnishingClasses) : x # Str(FurnishingClasses[i])
C24_UnseenFurnishingFails ==
    [][(/\ req'.op = "predict"
        /\ Carried(req'.auth) \in DOMAIN active_tokens
        /\ "furnishingstatus" \in DOMAIN req'.arg
        /\ Unseen(req'.arg.furnishingstatus)) =>
          /\ resp'.status = 400
          /\ UNCHANGED <<tables, registries>>
          /\ kaggle_transform(req'.arg.furnishingstatus) = Return(0)]_vars

\* The status "Furnished", which differs from a category by its case only,
\* was refused after a prediction had been stored.
C24_Witness ==
    /\ req.op = "predict"
    /\ req.arg = CapitalisedPayload
    /\ resp = Error("y contains previously unseen labels", 400)
    /\ Cardinality(DOMAIN predictions) = 1

\* C25: the feature list has the order area, bedrooms, bathrooms, stories,
\* mainroad, guestroom, basement, hotwaterheating, airconditioning, parking,
\* prefarea, furnishingstatus; a yes/no field is 1 exactly when its value in
\* lower case is "yes"; the example payload gives
\* [7500, 4, 2, 2, 1, 0, 1, 0, 1, 2, 1, 1], 1 being the code of semi-furnished.
SaysYes(x) == x \in {Str("yes"), Str("Yes"), Str("YES")}
Bit(x) == IF SaysYes(x) THEN 1 ELSE 0
C25_FeatureListOrderAndValues ==
    (req.op = "translate" /\ resp # NoResponse) =>
        LET d == req.arg
            v == resp.body.value
        IN  /\ resp.body.ok
            /\ v = <<7500, 4, 2, 2, Bit(d.mainroad), Bit(d.guestroom), Bit(d.basement),
                     Bit(d.hotwaterheating), Bit(d.airconditioning), 2, Bit(d.prefarea), 1>>
            /\ d = ExamplePayload => v = <<7500, 4, 2, 2, 1, 0, 1, 0, 1, 2, 1, 1>>

\* The feature list of a payload that says "YES" and "Yes" was built.
C25_Witness ==
    /\ req.op = "translate"
    /\ resp # NoResponse
    /\ req.arg.mainroad = Str("YES")
    /\ req.arg.prefarea = Str("Yes")
    /\ req.arg.basement = Num(1)
    /\ resp.body.value[5] = 1
    /\ resp.body.value[11] = 1
    /\ resp.body.value[7] = 0

\* C26: GET /admin/stats answers 200; without a stored prediction avg_price,
\* min_price and max_price are 0; with stored predictions total_users and
\* total_predictions are the table sizes, min_price and max_price the least
\* and the greatest stored price with min_price <= avg_price <= max_price,
\* and the recent counts are min(5, total_users) and min(5, total_predictions).
Least(a, b) == IF a < b THEN a ELSE b
C26_StatisticsBounds ==
    [][(req'.op = "admin_stats" /\ Carried(req'.auth) \in DOMAIN admin_tokens) =>
          LET s == resp'.body
              prices == {predictions[i].price : i \in DOMAIN predictions}
          IN  /\ resp'.status = 200
              /\ IF predictions = EmptyMap
                 THEN s.avg_price = 0 /\ s.min_price = 0 /\ s.max_price = 0
                 ELSE /\ s.min_price \in prices /\ \A x \in prices : s.min_price <= x
                      /\ s.max_price \in prices /\ \A x \in prices : x <= s.max_price
                      /\ s.min_price <= s.avg_price /\ s.avg_price <= s.max_price
              /\ s.total_users = Cardinality(DOMAIN users)
              /\ s.total_predictions = Cardinality(DOMAIN predictions)
              /\ s.recent_users_count = Least(5, s.total_users)
              /\ s.recent_predictions_count = Least(5, s.total_predictions)]_vars

\* Statistics over six predictions of different prices: five are recent.
C26_Witness ==
    /\ req.op = "admin_stats"
    /\ resp.status = 200
    /\ resp.body.total_predictions = 6
    /\ resp.body.recent_predictions_count = 5
    /\ resp.body.min_price < resp.body.avg_price
    /\ resp.body.avg_price < resp.body.max_price

\* C28: DELETE /admin/predictions/{id} with a valid admin token removes the
\* prediction with that id, whoever owns it and also when its owner is
\* deleted, and nothing else; for an id that is not stored it answers 404
\* and changes nothing.
C28_AdminDeletesAnyPrediction ==
    [][(req'.op = "admin_delete_prediction"
            /\ Carried(req'.auth) \in DOMAIN admin_tokens) =>
          IF req'.arg \in DOMAIN predictions
          THEN /\ resp'.status = 200
               /\ predictions' = Del(predictions, req'.arg)
               /\ UNCHANGED <<users, admins, registries>>
          ELSE /\ resp'.status = 404
               /\ UNCHANGED <<tables, registries>>]_vars

\* The admin deleted prediction 2, whose owner is no user; prediction 1 of
\* user 1 is stored.
C28_Witness ==
    /\ req.op = "admin_delete_prediction"
    /\ req.arg = 2
    /\ resp.status = 200
    /\ 2 \notin DOMAIN users
    /\ DOMAIN predictions = {1}

\* ------------------------------------------------------------- deleted users
\* The request carries a registered token whose user id is no User record.
OfDeletedUser(auth) ==
    /\ Carried(auth) \in DOMAIN active_tokens
    /\ active_tokens[Carried(auth)] \notin DOMAIN users

\* C31: DELETE /admin/users/{id} leaves active_tokens as it was, so a token
\* of the deleted user still passes the user guard and resolves to the
\* deleted id: with it GET /me answers 404 "User not found", and /predict,
\* /history, DELETE /history/{id} and PUT /history/{id}/favorite are
\* executed under the deleted id.
C31_DeletedUserKeepsTokens ==
    [][/\ (req'.op = "admin_delete_user" /\ Carried(req'.auth) \in DOMAIN admin_tokens) =>
            active_tokens' = active_tokens
       /\ (req'.op \in UserOps /\ OfDeletedUser(req'.auth)) =>
            LET id == active_tokens[Carried(req'.auth)]
                mine == {i \in DOMAIN predictions : predictions[i].user_id = id}
            IN  /\ resp'.status # 401
                /\ req'.op = "me" => resp' = Error("User not found", 404)
                /\ (req'.op = "predict" /\ req'.arg \in ValidPayloads) =>
                      /\ resp'.status = 200
                      /\ \E i \in DOMAIN predictions' \ DOMAIN predictions :
                            predictions'[i].user_id = id
                /\ req'.op = "history" =>
                      /\ resp'.status = 200
                      /\ {resp'.body[k].id : k \in DOMAIN resp'.body} = mine
                /\ (req'.op = "delete_history" /\ req'.arg \in mine) =>
                      /\ resp'.status = 200
                      /\ req'.arg \notin DOMAIN predictions'
                /\ (req'.op = "toggle_favorite" /\ req'.arg \in mine) =>
                      /\ resp'.status = 200
                      /\ predictions'[req'.arg].favorite = ~predictions[req'.arg].favorite]_vars

\* The admin deleted user 1 in this run, and user 1's token then marked the
\* prediction of user 1 as a favorite.
C31_Witness ==
    /\ req.op = "toggle_favorite"
    /\ Carried(req.auth) = Tok(1)
    /\ OfDeletedUser(req.auth)
    /\ resp.status = 200
    /\ predictions[req.arg].user_id = 1
    /\ predictions[req.arg].favorite

\* The user ids in use: those a registered token resolves to and those a
\* stored prediction belongs to.
IdsInUse ==
    {active_tokens[t] : t \in DOMAIN active_tokens}
        \cup {predictions[i].user_id : i \in DOMAIN predictions}

\* C32: a token issued to a user account never acts for another account, and
\* no prediction of an account is listed in another account's history: a
\* registration never gives the new User an id that a registered token
\* resolves to or that a stored prediction carries as user_id.
C32_NoIdOfDeletedUserReassigned ==
    [][(req'.op = "register" /\ resp'.status = 200) =>
          \A u \in DOMAIN users' \ DOMAIN users : u \notin IdsInUse]_vars

\* ------------------------------------------------------------- requests in parallel
Done(t, ops) == threads[t].pc = "done" /\ threads[t].req.op \in ops
Succeeded(t, ops) == Done(t, ops) /\ threads[t].resp.status = 200

\* C11: in every reachable state no two User records have the same email,
\* also when registrations of one email run at the same time and interleave
\* between the existence check and the commit.
C11_AtMostOneUserPerEmail ==
    \A u, v \in DOMAIN users : users[u].email = users[v].email => u = v

\* Two registrations of one email both passed the existence check: one was
\* committed, the other was refused by the store.
C11_Witness ==
    \E s, t \in Threads :
        /\ Succeeded(s, {"register"})
        /\ Done(t, {"register"})
        /\ threads[t].req = threads[s].req
        /\ threads[t].resp = Error(IntegrityError, 400)

\* C12: when two favorite toggles of the owner on one prediction run at the
\* same time and both complete, the flag has its original value again (it
\* was FALSE before them), whatever the order of their reads and commits.
C12_TwoTogglesRestoreTheFlag ==
    \A s, t \in Threads :
        (/\ s # t
         /\ Succeeded(s, {"toggle_favorite"})
         /\ Succeeded(t, {"toggle_favorite"})
         /\ \A o \in Threads \ {s, t} : threads[o].req.op # "toggle_favorite")
            => predictions[1].favorite = FALSE

\* C19: a logout that passed the guard returns success and leaves its token
\* absent, also when another logout of the same token removed it first, for
\* every order of the membership tests and the deletions.
C19_LogoutOfRemovedTokenSucceeds ==
    \A t \in Threads :
        (Done(t, {"logout", "admin_logout"}) /\ threads[t].id # 0)
            => /\ threads[t].resp.status = 200
               /\ threads[t].token \notin DOMAIN RegistryOf(threads[t].req.op)

\* C20: every request ends with a JSON success or a JSON error of the
\* application, never with an unhandled fault, also when a logout deletes
\* the token between the guard's membership test and its lookup.
C20_NoUnhandledFault ==
    \A t \in Threads :
        threads[t].pc = "done" => threads[t].resp.status \in {200, 400, 401, 404}

\* C33: authorization is decided once, at the guard. A request that passed
\* the guard keeps the principal id read there and completes its effect,
\* also when a logout running at the same time deletes its token before
\* the handler body runs: /predict stores its prediction under that id,
\* DELETE /history/{id} removes the record, the favorite toggle goes on to
\* its commit, and none of them is answered 401.
C33_AuthorizedOnceAtTheGuard ==
    [][\A t \in Threads :
          (/\ threads[t].id # 0
           /\ threads[t].req.op \in {"predict", "delete_history", "toggle_favorite"}
           /\ threads'[t] # threads[t]) =>
             LET id == threads[t].id
                 r == threads[t].req
                 mine == {i \in DOMAIN predictions : predictions[i].user_id = id}
                 done == threads'[t].pc = "done"
             IN  /\ threads'[t].id = id
                 /\ done => threads'[t].resp.status # 401
                 /\ (r.op = "predict" /\ r.arg \in ValidPayloads) =>
                       /\ done /\ threads'[t].resp.status = 200
                       /\ \E i \in DOMAIN predictions' \ DOMAIN predictions :
                             /\ predictions'[i].user_id = id
                             /\ threads'[t].resp.body.prediction_id = i
                 /\ (threads[t].pc = "query" /\ r.op # "predict" /\ r.arg \in mine) =>
                       threads'[t].pc = "commit"
                 /\ (threads[t].pc = "commit" /\ r.op = "delete_history") =>
                       /\ done /\ threads'[t].resp.status = 200
                       /\ r.arg \notin DOMAIN predictions']_vars

\* A /predict of user 1 passed the guard, a logout then deleted its token,
\* and the prediction was stored under user 1 all the same.
C33_Witness ==
    \E t \in Threads :
        /\ Succeeded(t, {"predict"})
        /\ ~threads[t].live
        /\ threads[t].token \in revoked
        /\ threads[t].resp.body.prediction_id \in DOMAIN predictions
        /\ predictions[threads[t].resp.body.prediction_id].user_id = threads[t].id

\* ------------------------------------------------------------- the Admin table
\* C34: no request to app.py creates, changes or deletes an Admin record:
\* every step but a run of create_admin.py leaves the Admin table as it
\* was, and POST /admin/login and POST /admin/logout change nothing but
\* admin_tokens.
C34_AdminTableFixedAtRuntime ==
    [][/\ req'.op # "create_admin" => admins' = admins
       /\ req'.op \in {"admin_login", "admin_logout"} =>
            UNCHANGED <<tables, active_tokens>>]_vars

\* The provisioned admin has logged in and out again over HTTP, with a user
\* registered: the table holds the one record create_admin.py wrote.
C34_Witness ==
    /\ req.op = "admin_logout"
    /\ resp.status = 200
    /\ Carried(req.auth) \in revoked
    /\ issued[Carried(req.auth)].registry = "admin"
    /\ admin_tokens = EmptyMap
    /\ users # EmptyMap
    /\ admins = Put(EmptyMap, 1, [email |-> ADMIN_EMAIL,
                                  password |-> generate_password_hash(ADMIN_PASSWORD),
                                  role |-> "admin"])

\* ------------------------------------------------------------- the user list
\* The predictions whose user_id is the id of no User record.
Orphans == {i \in DOMAIN predictions : predictions[i].user_id \notin DOMAIN users}

\* The sum of the prediction counts of the first n rows of a user list.
RECURSIVE CountsUpTo(_, _)
CountsUpTo(rows, n) ==
    IF n = 0 THEN 0 ELSE rows[n].prediction_count + CountsUpTo(rows, n - 1)

\* C35: GET /admin/users with a valid admin token lists every User record
\* exactly once and nothing else, each with the number of stored predictions
\* whose user_id is its id as prediction_count; a prediction whose user was
\* deleted is counted for no listed user, so the counts add up to the
\* predictions that are not orphaned.
C35_UserListCountsOwnPredictions ==
    [][(req'.op = "admin_users" /\ Carried(req'.auth) \in DOMAIN admin_tokens) =>
          LET rows == resp'.body
          IN  /\ resp'.status = 200
              /\ \A u \in DOMAIN users :
                    Cardinality({k \in DOMAIN rows : rows[k].id = u}) = 1
              /\ \A k \in DOMAIN rows :
                    /\ rows[k].id \in DOMAIN users
                    /\ rows[k].email = users[rows[k].id].email
                    /\ rows[k].is_blocked = users[rows[k].id].is_blocked
                    /\ rows[k].prediction_count =
                          Cardinality({i \in DOMAIN predictions :
                                         predictions[i].user_id = rows[k].id})
              /\ CountsUpTo(rows, Len(rows)) + Cardinality(Orphans)
                    = Cardinality(DOMAIN predictions)]_vars

\* The admin listed four users after deleting user 2: user 1 with its three
\* predictions, the two predictions of user 2 counted for nobody.
C35_Witness ==
    /\ req.op = "admin_users"
    /\ resp.status = 200
    /\ Len(resp.body) = 4
    /\ resp.body[1].id = 1
    /\ resp.body[1].prediction_count = 3
    /\ Cardinality(Orphans) = 2
    /\ \A i \in Orphans : predictions[i].user_id = 2

\* ------------------------------------------------------------- completion
\* C36: every request completes with exactly one response. With the threads
\* of the server scheduled fairly, time and again every request that was
\* accepted has its response (a thread serves one request, so each accepted
\* request is answered in the end), whatever the other requests and the
\* operations on the token registries do; a request has no response before
\* it is done, and once the response is there the thread does nothing
\* more: no retry, nothing queued, no second response.
C36_EveryRequestCompletesOnce ==
    /\ []<>(\A t \in Threads : threads[t].pc \in {"accept", "done"})
    /\ [][\A t \in Threads :
             /\ threads[t].pc = "done" => threads'[t] = threads[t]
             /\ threads[t].pc # "accept" => threads'[t].req = threads[t].req
             /\ threads[t].pc # "done" => threads[t].resp.status = 0
             /\ threads'[t].pc = "done" => threads'[t].resp.status # 0]_vars

\* Every request is answered, one of them a registration that met the
\* commit of another registration of its email and was refused.
C36_Witness ==
    /\ \A t \in Threads : threads[t].pc = "done" /\ threads[t].resp.status # 0
    /\ \E t \in Threads : /\ threads[t].req.op = "register"
                           /\ threads[t].resp.status = 400
                           /\ threads[t].resp.body.error = IntegrityError
====
